---- MODULE Spec2Model ----
(***************************************************************************)
(* Model of the 3. Liga "table of justice": the season aggregation        *)
(* (SeasonXPProcessor) and the match outcome model (XPCalculator) of       *)
(* src/src/calculators/xp_calculator.py, the classic standings of          *)
(* src/src/calculators/standings_calculator.py, the weekly pipeline of     *)
(* src/src/automation.py and src/main.py, and the request loop of          *)
(* src/src/utils/scraper_base.py.                                          *)
(*                                                                         *)
(* Strings that the code inspects character by character (file names,      *)
(* column labels) are sequences of one-character strings.  Numbers read    *)
(* from the match files are fixed-point, in units of 1/10000, so that      *)
(* rounding to three decimals is visible.                                  *)
(***************************************************************************)
EXTENDS Integers, Sequences, FiniteSets, TLC

VARIABLES
    directory,   \* the source directory: file name -> file content
    tie_order,   \* how this build's sort arranges rows with equal sort keys
    pc,          \* process_directory: the metric the loop handles next
    runs,        \* completed process_directory runs
    season_files,\* metric -> the season table file written to the directory
    returned,    \* metric -> what create_season_table returned last
    log,         \* metric -> log records of the last create_season_table
    globbed,     \* metric -> the files the last create_season_table selected
    filename,    \* _extract_spieltag_from_filename: its argument
    name_pc,     \* _extract_spieltag_from_filename: "call" or "returned"
    spieltag,    \* _extract_spieltag_from_filename: its return value
    match_df,    \* _extract_team_values: its argument df
    match_metric,\* _extract_team_values: its argument metric
    match_pc,    \* _extract_team_values: "call" or "returned"
    match_values,\* _extract_team_values: its return value
    self_max_goals,\* XPCalculator: self.max_goals
    arg_xg_home, \* the match outcome model: its argument xg_home
    arg_xg_away, \* the match outcome model: its argument xg_away
    xp_returned, \* compute_xp: <<>> before the call, then <<what it handed back>>
    prob_returned,\* calculate_match_probabilities: likewise
    matches_file,\* process_matches_file: the file at file_path
    matches_returned,\* process_matches_file: <<>>, then <<what it returned>>
    soccerway_dir,\* config.SOCCERWAY_DIR: its files, in the order os.listdir gives
    sort_ties,   \* how this build's sort arranges standings rows of equal points
    standings_returned,\* calculate_classic_standings: <<>>, then <<its outcome>>
    pipeline_spieltag,\* run_pipeline_for_spieltag: its argument spieltag
    next_step,   \* run_pipeline_for_spieltag: the index in steps of the step the
                 \* loop calls next, 0 when it is not in the loop
    steps_run,   \* the names of the steps called, in the order of the calls
    step_returns,\* what each of them returned
    pipeline_returned,\* run_pipeline_for_spieltag: <<>>, then <<its return value>>
    max_retries, \* BaseScraper: self.max_retries
    attempt,     \* make_request: the value of attempt the loop takes next
    responses,   \* make_request: what each session.get so far came to
    request_returned,\* make_request: <<>>, then <<what it handed back>>
    os_environ,  \* the value of the environment variable ENABLED_SOURCES
    SPIELTAG_MAP,\* config.SPIELTAG_MAP: its items, in the order of the dict
    now,         \* datetime.now(), in days
    lookback_days,\* the lookback period, in days
    source_dirs, \* source -> the spieltags its directory holds an xP file for
    spieltags_to_process,\* get_spieltags_to_process: <<>>, then <<its return value>>
    force_current,\* run_full_pipeline: its argument
    full_pc,     \* run_full_pipeline: "select", "loop", "finish" or "returned"
    pipeline_spieltags,\* run_full_pipeline: its list spieltags
    attempts,    \* the run_pipeline_for_spieltag calls: spieltag and return value
    success_count,\* run_full_pipeline: its counter
    step4_calls, \* the number of step4_update_season_tables calls
    full_returned,\* run_full_pipeline: <<>>, then <<its return value>>
    args_sources,\* run_pipeline: <<>> without --sources, else <<args.sources>>
    original_sources,\* run_pipeline: its local of that name
    temporaries, \* the lists run_pipeline assigned into, as they were left
    step_sources,\* the sources each executed step iterated over
    run_pc       \* run_pipeline: "override", "run", "restore" or "finished"

vars == <<directory, tie_order, pc, runs, season_files, returned, log, globbed,
         filename, name_pc, spieltag,
         match_df, match_metric, match_pc, match_values,
         self_max_goals, arg_xg_home, arg_xg_away, xp_returned, prob_returned,
         matches_file, matches_returned,
         soccerway_dir, sort_ties, standings_returned,
         pipeline_spieltag, next_step, steps_run, step_returns, pipeline_returned,
         max_retries, attempt, responses, request_returned,
         os_environ, SPIELTAG_MAP,
         now, lookback_days, source_dirs, spieltags_to_process,
         force_current, full_pc, pipeline_spieltags, attempts, success_count, step4_calls,
         full_returned,
         args_sources, original_sources, temporaries, step_sources, run_pc>>

season_vars == <<directory, tie_order, pc, runs, season_files, returned, log, globbed>>

name_vars == <<filename, name_pc, spieltag>>

match_vars == <<match_df, match_metric, match_pc, match_values>>

outcome_vars == <<self_max_goals, arg_xg_home, arg_xg_away, xp_returned, prob_returned>>

matches_vars == <<matches_file, matches_returned>>

standings_vars == <<soccerway_dir, sort_ties, standings_returned>>

pipeline_vars == <<pipeline_spieltag, next_step, steps_run, step_returns, pipeline_returned>>

request_vars == <<max_retries, attempt, responses, request_returned>>

config_vars == <<os_environ, SPIELTAG_MAP>>

select_vars == <<now, lookback_days, source_dirs, spieltags_to_process>>

full_vars == <<force_current, full_pc, pipeline_spieltags, attempts, success_count, step4_calls,
               full_returned>>

run_vars == <<args_sources, original_sources, temporaries, step_sources, run_pc>>

automation_vars == <<request_vars, config_vars, select_vars, full_vars, run_vars>>

----------------------------------------------------------------------------
(* Bounds of the model.                                                    *)

\* files in the source directory when aggregation starts
MaxFiles == 3

\* process_directory runs over the same directory
MaxRuns == 2

\* tokens a generated source identifier is made of
MaxTokens == 5

\* records of a match file handed to _extract_team_values on its own
MaxRows == 2

\* files in the soccerway directory
MaxFixtureFiles == 2

\* matchdays run_pipeline_for_spieltag is called for
MaxSpieltag == 2

\* the largest self.max_retries (SCRAPING_MAX_RETRIES, 3 when not set)
MaxRetries == 3

----------------------------------------------------------------------------
(* Python values.                                                          *)

\* Python's None, where the other values are numbers
None == -1

\* numpy's nan in a numeric column (the numbers of the files are >= 0)
NaN == -1

\* a missing (NaN) cell of a team column
NoTeam == "NaN"

\* pd.notna of a number, and of a team cell
notna(v) == v # NaN

notna_team(t) == t # NoTeam

----------------------------------------------------------------------------
(* Characters and strings.                                                 *)

Digits == <<"0", "1", "2", "3", "4", "5", "6", "7", "8", "9">>

AsciiUpper == <<"A", "B", "C", "D", "E", "F", "G", "H", "I", "J", "K", "L", "M",
           "N", "O", "P", "Q", "R", "S", "T", "U", "V", "W", "X", "Y", "Z">>

AsciiLower == <<"a", "b", "c", "d", "e", "f", "g", "h", "i", "j", "k", "l", "m",
           "n", "o", "p", "q", "r", "s", "t", "u", "v", "w", "x", "y", "z">>

\* the characters used, in code point order
CodePoints == <<"-", ".">> \o Digits \o AsciiUpper \o <<"_">> \o AsciiLower

IndexIn(seq, c) == CHOOSE i \in 1..Len(seq) : seq[i] = c

Range(seq) == {seq[i] : i \in 1..Len(seq)}

ord(c) == IndexIn(CodePoints, c)

DigitChars == Range(Digits)

UpperChars == Range(AsciiUpper)

isdigit(c) == c \in DigitChars

lower_char(c) == IF c \in UpperChars THEN AsciiLower[IndexIn(AsciiUpper, c)] ELSE c

\* a mutant of lower: the case of the identifier is kept
lower_kept_case(s) == s

\* str.lower
RECURSIVE lower(_)
lower(s) == IF s = <<>> THEN <<>> ELSE <<lower_char(Head(s))>> \o lower(Tail(s))

\* str < str
RECURSIVE str_lt(_, _)
str_lt(a, b) ==
    IF b = <<>> THEN FALSE
    ELSE IF a = <<>> THEN TRUE
    ELSE IF a[1] # b[1] THEN ord(a[1]) < ord(b[1])
    ELSE str_lt(Tail(a), Tail(b))

\* int(str) of a string of digits
RECURSIVE int(_)
int(ds) ==
    IF ds = <<>> THEN 0
    ELSE 10 * int(SubSeq(ds, 1, Len(ds) - 1)) + (IndexIn(Digits, ds[Len(ds)]) - 1)

\* str(int) of a number >= 0
RECURSIVE str(_)
str(n) == IF n < 10 THEN <<Digits[n + 1]>> ELSE str(n \div 10) \o <<Digits[(n % 10) + 1]>>

Min(S) == CHOOSE x \in S : \A y \in S : x <= y

Max(S) == CHOOSE x \in S : \A y \in S : y <= x

startswith_at(s, i, lit) ==
    /\ i + Len(lit) - 1 <= Len(s)
    /\ SubSeq(s, i, i + Len(lit) - 1) = lit

endswith(s, lit) ==
    /\ Len(lit) <= Len(s)
    /\ SubSeq(s, Len(s) - Len(lit) + 1, Len(s)) = lit

\* the end of the longest run of digits of s that starts at i (i - 1: none)
digits_end(s, i) ==
    LET stops == {j \in i..Len(s) : ~isdigit(s[j])}
    IN  IF stops = {} THEN Len(s) ELSE Min(stops) - 1

Separators == {"-", "_"}

kw_spieltag == <<"s", "p", "i", "e", "l", "t", "a", "g">>

kw_round == <<"r", "o", "u", "n", "d">>

kw_matchday == <<"m", "a", "t", "c", "h", "d", "a", "y">>

----------------------------------------------------------------------------
(* _extract_spieltag_from_filename                                         *)

\* re.search(r'<keyword>[-_](\d+)', s): the group of the leftmost match, as
\* the set holding it, or {} without a match
search_keyword_number(s, keyword) ==
    LET n == Len(keyword)
        hits == {i \in 1..Len(s) :
                    /\ startswith_at(s, i, keyword)
                    /\ i + n + 1 <= Len(s)
                    /\ s[i + n] \in Separators
                    /\ isdigit(s[i + n + 1])}
    IN  IF hits = {} THEN {}
        ELSE LET i == Min(hits)
             IN  {SubSeq(s, i + n + 1, digits_end(s, i + n + 1))}

\* re.search(r'(\d+)[-_]<keyword>', s)
search_number_keyword(s, keyword) ==
    LET hits == {i \in 1..Len(s) :
                    /\ isdigit(s[i])
                    /\ LET j == digits_end(s, i)
                       IN  /\ j + 1 <= Len(s)
                           /\ s[j + 1] \in Separators
                           /\ startswith_at(s, j + 2, keyword)}
    IN  IF hits = {} THEN {}
        ELSE LET i == Min(hits)
             IN  {SubSeq(s, i, digits_end(s, i))}

\* the four patterns, tried in this order on filename.lower()
extract_spieltag_from_filename(name) ==
    LET s  == lower(name)
        m1 == search_keyword_number(s, kw_spieltag)
        m2 == search_number_keyword(s, kw_spieltag)
        m3 == search_keyword_number(s, kw_round)
        m4 == search_keyword_number(s, kw_matchday)
        group(m) == int(CHOOSE g \in m : TRUE)
    IN  IF m1 # {} THEN group(m1)
        ELSE IF m2 # {} THEN group(m2)
        ELSE IF m3 # {} THEN group(m3)
        ELSE IF m4 # {} THEN group(m4)
        ELSE None

----------------------------------------------------------------------------
(* Source identifiers: every concatenation of at most MaxTokens tokens.    *)

NameTokens ==
    { kw_spieltag,
      <<"M", "A", "T", "C", "H", "D", "A", "Y">>,
      <<"R", "o", "u", "n", "d">>,
      <<"-">>, <<"_">>, <<"1">>, <<"2">> }

RECURSIVE Names(_)
Names(k) ==
    IF k = 0 THEN {<<>>}
    ELSE LET shorter == Names(k - 1)
         IN  shorter \cup {n \o t : n \in shorter, t \in NameTokens}

InitFilename ==
    /\ filename \in Names(MaxTokens)
    /\ name_pc = "call"
    /\ spieltag = None

ExtractSpieltag ==
    /\ name_pc = "call"
    /\ spieltag' = extract_spieltag_from_filename(filename)
    /\ name_pc' = "returned"
    /\ UNCHANGED filename

----------------------------------------------------------------------------
(* The match files of a source directory.                                  *)

\* team names, in ascending (str <) order
TeamNames == <<"Aachen", "Bielefeld", "Cottbus">>

Teams == {TeamNames[i] : i \in 1..Len(TeamNames)}

team_lt(a, b) == IndexIn(TeamNames, a) < IndexIn(TeamNames, b)

Metrics == {"xP", "xG"}

MatchColumns == <<"home_team", "away_team", "home_xG", "away_xG", "home_xP", "away_xP">>

FixtureColumns == <<"home_team", "away_team", "home_goals", "away_goals">>

MatchRow(home, away, xg, xp) ==
    [home_team |-> home, away_team |-> away,
     home_xG |-> xg[1], away_xG |-> xg[2],
     home_xP |-> xp[1], away_xP |-> xp[2]]

\* records with every cell present; the numbers are in 1/10000: xG 1.5 : 1.0625
\* and xP 1.2 : 0.8
FullRow(home, away) == MatchRow(home, away, <<15000, 10625>>, <<12000, 8000>>)

\* a record with the away side's values missing
NoAwayValueRow == MatchRow("Aachen", "Bielefeld", <<15000, NaN>>, <<12000, NaN>>)

\* a record with the home team missing
NoHomeTeamRow == MatchRow(NoTeam, "Cottbus", <<10000, 10000>>, <<8000, 8000>>)

MatchFile(rows) == [kind |-> "matches", columns |-> MatchColumns, rows |-> rows]

\* a file pd.read_csv raises on
CorruptFile == [kind |-> "corrupt", columns |-> <<>>, rows |-> <<>>]

\* a fixtures file: teams and goals, no xG or xP column
FixturesFile ==
    [kind |-> "matches", columns |-> FixtureColumns,
     rows |-> <<[home_team |-> "Aachen", away_team |-> "Cottbus",
                 home_goals |-> 2, away_goals |-> 1]>>]

\* a partial record followed by a full one
TwoRowFile ==
    MatchFile(<<NoHomeTeamRow,
                MatchRow("Aachen", "Bielefeld", <<10000, 10000>>, <<8000, 8000>>)>>)

NoAwayValueFile == MatchFile(<<NoAwayValueRow>>)

AachenBielefeldFile == MatchFile(<<FullRow("Aachen", "Bielefeld")>>)

BielefeldCottbusFile == MatchFile(<<FullRow("Bielefeld", "Cottbus")>>)

CottbusAachenFile == MatchFile(<<FullRow("Cottbus", "Aachen")>>)

sfx_xp_csv == <<"_", "x", "p", ".", "c", "s", "v">>

sfx_csv == <<".", "c", "s", "v">>

\* notes_xp.csv
notes_xp_csv == <<"n", "o", "t", "e", "s">> \o sfx_xp_csv

\* 3-Spieltag.csv
spieltag_3_csv == <<"3", "-", "S", "p", "i", "e", "l", "t", "a", "g">> \o sfx_csv

\* Round_1_xp.csv
round_1_xp_csv == <<"R", "o", "u", "n", "d", "_", "1">> \o sfx_xp_csv

\* spieltag-1_xp.csv
spieltag_1_xp_csv == kw_spieltag \o <<"-", "1">> \o sfx_xp_csv

\* spieltag-2_xp.csv
spieltag_2_xp_csv == kw_spieltag \o <<"-", "2">> \o sfx_xp_csv

\* spieltag-10_xp.csv
spieltag_10_xp_csv == kw_spieltag \o <<"-", "1", "0">> \o sfx_xp_csv

FileNames ==
    { spieltag_1_xp_csv, spieltag_2_xp_csv, spieltag_10_xp_csv,
      round_1_xp_csv, notes_xp_csv, spieltag_3_csv }

\* the contents a file of each name is drawn from
ContentsOf(name) ==
    IF name = spieltag_1_xp_csv
    THEN {CorruptFile, FixturesFile, NoAwayValueFile, AachenBielefeldFile}
    ELSE IF name = spieltag_2_xp_csv
    THEN {CorruptFile, TwoRowFile, BielefeldCottbusFile}
    ELSE IF name = spieltag_10_xp_csv THEN {FixturesFile, CottbusAachenFile}
    ELSE IF name = round_1_xp_csv THEN {CorruptFile, CottbusAachenFile}
    ELSE IF name = notes_xp_csv THEN {TwoRowFile}
    ELSE {CorruptFile, FixturesFile, CottbusAachenFile}

FileContents == UNION {ContentsOf(name) : name \in FileNames}

\* f"season_{metric.lower()}.csv"
season_filename(metric) ==
    <<"s", "e", "a", "s", "o", "n", "_", "x">>
        \o (IF metric = "xP" THEN <<"p">> ELSE <<"g">>) \o sfx_csv

\* every name a file of the directory can have
DiskNames == FileNames \cup {season_filename(m) : m \in Metrics}

\* _extract_spieltag_from_filename of the file names of the model, computed once
SpieltagOfName == {<<n, extract_spieltag_from_filename(n)>> : n \in DiskNames}

spieltag_of(name) == (CHOOSE p \in SpieltagOfName : p[1] = name)[2]

----------------------------------------------------------------------------
(* _find_team_columns, _find_metric_columns, _extract_team_values          *)

\* the loop over the columns: the last candidate of each side wins; the pair
\* <<home_col, away_col>>, or <<>> for None
find_columns(columns, home_candidates, away_candidates) ==
    LET home == {i \in 1..Len(columns) : columns[i] \in home_candidates}
        away == {i \in 1..Len(columns) :
                    columns[i] \notin home_candidates /\ columns[i] \in away_candidates}
    IN  IF home # {} /\ away # {}
        THEN <<columns[Max(home)], columns[Max(away)]>>
        ELSE <<>>

find_team_columns(columns) ==
    find_columns(columns, {"home_team", "Home_Team", "HomeTeam", "home"},
                          {"away_team", "Away_Team", "AwayTeam", "away"})

find_metric_columns(columns, metric) ==
    IF metric = "xP"
    THEN find_columns(columns, {"home_xP", "Home_xP", "xP_home"},
                               {"away_xP", "Away_xP", "xP_away"})
    ELSE IF metric = "xG"
    THEN find_columns(columns, {"home_xG", "Home_xG", "xG_home"},
                               {"away_xG", "Away_xG", "xG_away"})
    ELSE <<>>

\* a mutant of row_values: each side is taken when its own team and value are present
row_values_per_side(team_values, row, team_cols, metric_cols) ==
    LET home_team  == row[team_cols[1]]
        away_team  == row[team_cols[2]]
        home_value == row[metric_cols[1]]
        away_value == row[metric_cols[2]]
        with_home  == IF notna_team(home_team) /\ notna(home_value)
                      THEN (home_team :> home_value) @@ team_values
                      ELSE team_values
    IN  IF notna_team(away_team) /\ notna(away_value)
        THEN (away_team :> away_value) @@ with_home
        ELSE with_home

\* the body of the loop over the rows: the dict after the row
row_values(team_values, row, team_cols, metric_cols) ==
    LET home_team  == row[team_cols[1]]
        away_team  == row[team_cols[2]]
        home_value == row[metric_cols[1]]
        away_value == row[metric_cols[2]]
    IN  IF /\ notna_team(home_team) /\ notna_team(away_team)
           /\ notna(home_value) /\ notna(away_value)
        THEN (away_team :> away_value) @@ (home_team :> home_value) @@ team_values
        ELSE team_values

EmptyDict == [t \in {} |-> NaN]

RECURSIVE rows_values(_, _, _, _)
rows_values(team_values, rows, team_cols, metric_cols) ==
    IF rows = <<>> THEN team_values
    ELSE rows_values(row_values(team_values, Head(rows), team_cols, metric_cols),
                     Tail(rows), team_cols, metric_cols)

\* the header of a file as the column finders see it: the labels of a season
\* table (Team, spieltag-N, Total_<metric>) are no candidate of any finder
header(file) == IF file.kind = "matches" THEN file.columns ELSE <<>>

\* team -> value, a dict
extract_team_values(df, metric) ==
    LET team_cols   == find_team_columns(header(df))
        metric_cols == find_metric_columns(header(df), metric)
    IN  IF team_cols = <<>> THEN EmptyDict
        ELSE IF metric_cols = <<>> THEN EmptyDict
        ELSE rows_values(EmptyDict, df.rows, team_cols, metric_cols)

\* _has_required_columns: False when reading the header raises
has_required_columns(file, metric) ==
    IF file.kind = "corrupt" THEN FALSE
    ELSE LET cols == {header(file)[i] : i \in 1..Len(header(file))}
         IN  IF metric = "xP" THEN cols \cap {"home_xP", "away_xP"} # {}
             ELSE IF metric = "xG"
             THEN cols \cap {"home_xG", "away_xG", "Home_xG", "Away_xG"} # {}
             ELSE FALSE

----------------------------------------------------------------------------
(* _build_season_dataframe                                                 *)

lbl_Team == <<"T", "e", "a", "m">>

lbl_spieltag_dash == kw_spieltag \o <<"-">>

\* f'spieltag-{st}'
spieltag_label(st) == lbl_spieltag_dash \o str(st)

\* f'Total_{metric}'
total_label(metric) ==
    <<"T", "o", "t", "a", "l", "_", "x">> \o (IF metric = "xP" THEN <<"P">> ELSE <<"G">>)

\* round(value, 3) of a number in 1/10000: to the nearest 1/1000, a tie
\* (exact for the binary fractions k/16) to the even one
round3(v) ==
    LET q == v \div 10
        r == v % 10
    IN  IF r < 5 THEN 10 * q
        ELSE IF r > 5 THEN 10 * (q + 1)
        ELSE IF q % 2 = 0 THEN 10 * q ELSE 10 * (q + 1)

\* sorted() of a set of numbers
RECURSIVE sorted_ints(_)
sorted_ints(S) ==
    IF S = {} THEN <<>>
    ELSE LET m == Min(S) IN <<m>> \o sorted_ints(S \ {m})

\* sorted() of a set of team names
RECURSIVE sorted_teams(_)
sorted_teams(S) ==
    IF S = {} THEN <<>>
    ELSE LET m == CHOOSE t \in S : \A u \in S \ {t} : team_lt(t, u)
         IN  <<m>> \o sorted_teams(S \ {m})

\* str < str on the file names of the model, computed once
NamesLt == {p \in DiskNames \X DiskNames : str_lt(p[1], p[2])}

\* sorted() of a set of file names
RECURSIVE sorted_names(_)
sorted_names(S) ==
    IF S = {} THEN <<>>
    ELSE LET m == CHOOSE n \in S : \A o \in S \ {n} : <<n, o>> \in NamesLt
         IN  <<m>> \o sorted_names(S \ {m})

\* x.split('-')[1]
split_dash_1(x) ==
    LET dashes == {i \in 1..Len(x) : x[i] = "-"}
        first  == Min(dashes)
        later  == {i \in dashes : i > first}
        stop   == IF later = {} THEN Len(x) ELSE Min(later) - 1
    IN  SubSeq(x, first + 1, stop)

\* a mutant of column_key: the labels are sorted as strings, by their digits
column_key_alphabetical(x) ==
    LET ds == split_dash_1(x)
    IN  IndexIn(Digits, ds[1]) * 100 + (IF Len(ds) > 1 THEN IndexIn(Digits, ds[2]) ELSE 0)

\* the key of the final column sort
column_key(x) == int(split_dash_1(x))

\* a list without its i-th element
without(seq, i) == SubSeq(seq, 1, i - 1) \o SubSeq(seq, i + 1, Len(seq))

\* the list of the values of a function on 1..n
list(f) == f \o <<>>

\* the stable sort of a list of <<key, item>> by key: the items
RECURSIVE sorted_by_key(_)
sorted_by_key(pairs) ==
    IF pairs = <<>> THEN <<>>
    ELSE LET least == Min({pairs[j][1] : j \in 1..Len(pairs)})
             i     == Min({j \in 1..Len(pairs) : pairs[j][1] = least})
         IN  <<pairs[i][2]>> \o sorted_by_key(without(pairs, i))

\* sorted(spieltag_cols, key=lambda x: int(x.split('-')[1]))
sorted_columns(cols) ==
    sorted_by_key(list([j \in 1..Len(cols) |-> <<column_key(cols[j]), cols[j]>>]))

\* df[cols].sum(axis=1, skipna=True) of one row: cells holds the row's cells of cols
RECURSIVE sum_skipna(_)
sum_skipna(cells) ==
    IF cells = <<>> THEN 0
    ELSE (IF notna(Head(cells)) THEN Head(cells) ELSE 0) + sum_skipna(Tail(cells))

\* a mutant of total_of: skipna=False, a missing cell makes the total missing
total_of_no_skipna(cells) ==
    IF \E i \in 1..Len(cells) : ~notna(cells[i]) THEN NaN ELSE round3(sum_skipna(cells))

\* .sum(axis=1, skipna=True).round(3)
total_of(cells) == round3(sum_skipna(cells))

\* df.sort_values(by, ascending=False) with the default kind, quicksort, which is
\* not stable: the rows come by the cell at position by, descending (NaN last),
\* and rows with equal cells in the order order_of_ties, which the build decides
RECURSIVE sort_values(_, _, _)
sort_values(rows, by, order_of_ties) ==
    IF rows = <<>> THEN <<>>
    ELSE LET before(r, q) ==
                 \/ notna(r[by]) /\ ~notna(q[by])
                 \/ notna(r[by]) /\ notna(q[by]) /\ r[by] > q[by]
                 \/ r[by] = q[by] /\ order_of_ties[r[1]] < order_of_ties[q[1]]
             i == CHOOSE j \in 1..Len(rows) :
                     \A k \in 1..Len(rows) : k # j => before(rows[j], rows[k])
         IN  <<rows[i]>> \o sort_values(without(rows, i), by, order_of_ties)

\* df[labels]: the columns labels of a frame, in that order
select_columns(df, labels) ==
    LET at == list([j \in 1..Len(labels) |-> IndexIn(df.columns, labels[j])])
    IN  [columns |-> labels,
         data |-> list([i \in 1..Len(df.data) |->
                        list([j \in 1..Len(labels) |-> df.data[i][at[j]]])])]

\* the DataFrame _build_season_dataframe returns: the column labels in order,
\* and the rows in order, each the list of its cells
build_season_dataframe(spieltag_data, teams, metric, order_of_ties) ==
    LET spieltags == sorted_ints(DOMAIN spieltag_data)
        columns   == <<lbl_Team>> \o [j \in 1..Len(spieltags) |-> spieltag_label(spieltags[j])]
        cell(team, st) ==
            LET value == IF team \in DOMAIN spieltag_data[st]
                         THEN spieltag_data[st][team] ELSE NaN
            IN  IF notna(value) THEN round3(value) ELSE NaN
        data == list([i \in 1..Len(teams) |->
                    <<teams[i]>> \o [j \in 1..Len(spieltags) |-> cell(teams[i], spieltags[j])]])
        df == [columns |-> columns, data |-> data]
        spieltag_cols == SelectSeq(columns, LAMBDA c : startswith_at(c, 1, lbl_spieltag_dash))
        total  == total_label(metric)
        cells  == select_columns(df, spieltag_cols).data
        with_total == [columns |-> columns \o <<total>>,
                       data |-> list([i \in 1..Len(teams) |->
                                        data[i] \o <<total_of(cells[i])>>])]
        sorted == [with_total EXCEPT
                      !.data = sort_values(with_total.data, Len(with_total.columns), order_of_ties)]
        final_columns == <<lbl_Team>> \o sorted_columns(spieltag_cols) \o <<total>>
    IN  select_columns(sorted, final_columns)

----------------------------------------------------------------------------
(* create_season_table                                                     *)

\* a season table file as pd.read_csv returns it
SeasonFile(df) == [kind |-> "season", columns |-> df.columns, rows |-> df.data]

\* the directory as glob sees it: the match files and the season files written
disk(match_files, written) ==
    LET season == {m \in Metrics : written[m] # <<>>}
    IN  [n \in DOMAIN match_files \cup {season_filename(m) : m \in season} |->
            IF n \in DOMAIN match_files THEN match_files[n]
            ELSE SeasonFile(written[CHOOSE m \in season : season_filename(m) = n][1])]

EmptyData == [st \in {} |-> EmptyDict]

\* a mutant of process_file: a file that cannot be read is passed over in silence
process_file_error_unlogged(acc, name, file, metric) ==
    LET st == spieltag_of(name)
    IN  IF st = None THEN acc
        ELSE IF file.kind = "corrupt" THEN acc
        ELSE LET team_values == extract_team_values(file, metric)
             IN  IF team_values # EmptyDict
                 THEN [acc EXCEPT !.spieltag_data = (st :> team_values) @@ @,
                                  !.all_teams = @ \cup DOMAIN team_values]
                 ELSE acc

\* a mutant of process_file: a matchday is kept also when its file yields no value
process_file_keeps_empty(acc, name, file, metric) ==
    LET st == spieltag_of(name)
    IN  IF st = None THEN acc
        ELSE IF file.kind = "corrupt"
        THEN [acc EXCEPT !.log = @ \cup {<<"error", name>>}]
        ELSE LET team_values == extract_team_values(file, metric)
             IN  [acc EXCEPT !.spieltag_data = (st :> team_values) @@ @,
                             !.all_teams = @ \cup DOMAIN team_values]

\* one iteration of the loop over sorted(files); acc holds spieltag_data,
\* all_teams and the warnings and errors logged
process_file(acc, name, file, metric) ==
    LET st == spieltag_of(name)
    IN  IF st = None THEN acc
        ELSE IF file.kind = "corrupt"
        THEN [acc EXCEPT !.log = @ \cup {<<"error", name>>}]
        ELSE LET team_values == extract_team_values(file, metric)
             IN  IF team_values # EmptyDict
                 THEN [acc EXCEPT !.spieltag_data = (st :> team_values) @@ @,
                                  !.all_teams = @ \cup DOMAIN team_values]
                 ELSE acc

RECURSIVE process_files(_, _, _, _)
process_files(acc, files, dir, metric) ==
    IF files = <<>> THEN acc
    ELSE process_files(process_file(acc, Head(files), dir[Head(files)], metric),
                       Tail(files), dir, metric)

\* what create_season_table returns (<<>> for None, else <<DataFrame>>), what
\* it logs, and its list files
create_season_table(dir, metric, order_of_ties) ==
    LET xp_files == {n \in DOMAIN dir : endswith(n, <<"x", "p">> \o sfx_csv)}
        files    == IF xp_files # {} THEN xp_files
                    ELSE {n \in DOMAIN dir :
                            endswith(n, sfx_csv) /\ has_required_columns(dir[n], metric)}
    IN  IF files = {}
        THEN [value |-> <<>>, log |-> {<<"warning", "no files">>}, files |-> files]
        ELSE LET acc == process_files(
                            [spieltag_data |-> EmptyData, all_teams |-> {}, log |-> {}],
                            sorted_names(files), dir, metric)
             IN  IF acc.spieltag_data = EmptyData
                 THEN [value |-> <<>>, log |-> acc.log \cup {<<"warning", "no data">>},
                       files |-> files]
                 ELSE [value |-> <<build_season_dataframe(acc.spieltag_data,
                                        sorted_teams(acc.all_teams), metric, order_of_ties)>>,
                       log |-> acc.log, files |-> files]

\* a mutant of save_season_table: the table is appended to the file (mode='a')
save_season_table_appends(written, df, metric) ==
    IF written[metric] = <<>> THEN [written EXCEPT ![metric] = <<df>>]
    ELSE [written EXCEPT ![metric] = <<[df EXCEPT !.data = written[metric][1].data \o @]>>]

\* df.to_csv(directory / f"season_{metric.lower()}.csv", index=False): the
\* season files of the directory after it
save_season_table(written, df, metric) == [written EXCEPT ![metric] = <<df>>]

----------------------------------------------------------------------------
(* XPCalculator: the match outcome model                                   *)
(*                                                                         *)
(* An argument of the model is a Python value: a float (a number in        *)
(* 1/10000, or NaN), None, a text cell, or a list of two or more numbers.  *)
(* Probabilities of a goal count are in 1/PmfScale, masses of a scoreline  *)
(* in 1/PmfScale^2; the returned values are in 1/10000 like every other    *)
(* number read from or written to a match file.                            *)

Float(v) == [kind |-> "float", value |-> v]

PyNone == [kind |-> "None", value |-> None]

PyStr == [kind |-> "str", value |-> 0]

PyList == [kind |-> "list", value |-> 0]

\* XPCalculator(max_goals=10)
default_max_goals == 10

PmfScale == 20000

\* the expected goals for which the table below holds the distribution
MuValues == {0, 5000, 10000, 15000, 25000, 40000}

\* scipy.stats.poisson.pmf(k, mu) for k = 0 .. 12, times PmfScale, to the
\* nearest integer
PoissonTable ==
    [mu \in MuValues |->
        CASE mu = 0     -> <<20000, 0, 0, 0, 0, 0, 0, 0, 0, 0, 0, 0, 0>>
          [] mu = 5000  -> <<12131, 6065, 1516, 253, 32, 3, 0, 0, 0, 0, 0, 0, 0>>
          [] mu = 10000 -> <<7358, 7358, 3679, 1226, 307, 61, 10, 1, 0, 0, 0, 0, 0>>
          [] mu = 15000 -> <<4463, 6694, 5020, 2510, 941, 282, 71, 15, 3, 0, 0, 0, 0>>
          [] mu = 25000 -> <<1642, 4104, 5130, 4275, 2672, 1336, 557, 199, 62, 17, 4, 1, 0>>
          [] mu = 40000 -> <<366, 1465, 2931, 3907, 3907, 3126, 2084, 1191, 595, 265, 106, 38, 13>>]

\* poisson.pmf(k, mu) of a number mu
poisson_pmf(k, mu) == PoissonTable[mu.value][k + 1]

\* poisson.pmf raises for an argument that is not a number
pmf_raises(mu) == mu.kind # "float"

\* pd.isna(x): True, False, or an array of them for a list
pd_isna(x) ==
    IF x.kind = "list" THEN "array"
    ELSE IF x.kind = "None" \/ (x.kind = "float" /\ x.value = NaN) THEN "True"
    ELSE "False"

\* pd.isna(xg_home) or pd.isna(xg_away): the truth value of an array of two
\* or more elements is a ValueError; the right operand is evaluated only when
\* the left one is false
isna_or(xg_home, xg_away) ==
    IF pd_isna(xg_home) = "array" THEN "ValueError"
    ELSE IF pd_isna(xg_home) = "True" THEN "True"
    ELSE IF pd_isna(xg_away) = "array" THEN "ValueError"
    ELSE pd_isna(xg_away)

\* round(value, 3) of a mass in 1/PmfScale^2, as a number in 1/10000
round_mass(v) ==
    LET unit == (PmfScale * PmfScale) \div 1000
        q == v \div unit
        r == v % unit
    IN  IF 2 * r < unit THEN 10 * q
        ELSE IF 2 * r > unit THEN 10 * (q + 1)
        ELSE IF q % 2 = 0 THEN 10 * q ELSE 10 * (q + 1)

\* what a call hands back: the exception that escaped it, or its value
Returns(value) == [raised |-> "none", value |-> value]

Raises(exception) == [raised |-> exception, value |-> <<>>]

\* the body of compute_xp's loops for the scoreline h : a, with the home
\* side's draw branch taken for a home win as well
xp_add_draw_as_win(acc, h, a, p_scoreline) ==
    IF h >= a THEN [acc EXCEPT !.xp_home = @ + p_scoreline * 3]
    ELSE IF h < a THEN [acc EXCEPT !.xp_away = @ + p_scoreline * 3]
    ELSE [acc EXCEPT !.p_draw = @ + p_scoreline]

\* the body of compute_xp's loops for the scoreline h : a
xp_add(acc, h, a, p_scoreline) ==
    IF h > a THEN [acc EXCEPT !.xp_home = @ + p_scoreline * 3]
    ELSE IF h < a THEN [acc EXCEPT !.xp_away = @ + p_scoreline * 3]
    ELSE [acc EXCEPT !.p_draw = @ + p_scoreline]

\* compute_xp's inner loop, for a in range(max_goals + 1): what the
\* scorelines h : a, h : a + 1, ... add to the accumulators
RECURSIVE xp_inner(_, _, _, _, _)
xp_inner(max_goals, xg_home, xg_away, h, a) ==
    IF a > max_goals THEN [xp_home |-> 0, xp_away |-> 0, p_draw |-> 0]
    ELSE LET p_home == poisson_pmf(h, xg_home)
             p_away == poisson_pmf(a, xg_away)
             p_scoreline == p_home * p_away
         IN  xp_add(xp_inner(max_goals, xg_home, xg_away, h, a + 1),
                    h, a, p_scoreline)

\* compute_xp's outer loop, for h in range(max_goals + 1): what the rows
\* h, h + 1, ... of the grid add to the accumulators
RECURSIVE xp_loop(_, _, _, _)
xp_loop(max_goals, xg_home, xg_away, h) ==
    IF h > max_goals THEN [xp_home |-> 0, xp_away |-> 0, p_draw |-> 0]
    ELSE LET row == xp_inner(max_goals, xg_home, xg_away, h, 0)
             rest == xp_loop(max_goals, xg_home, xg_away, h + 1)
         IN  [xp_home |-> row.xp_home + rest.xp_home,
              xp_away |-> row.xp_away + rest.xp_away,
              p_draw  |-> row.p_draw + rest.p_draw]

\* compute_xp with 0.0 in place of NaN for a missing argument
compute_xp_zero_when_missing(max_goals, xg_home, xg_away) ==
    IF isna_or(xg_home, xg_away) = "ValueError" THEN Raises("ValueError")
    ELSE IF isna_or(xg_home, xg_away) = "True" THEN Returns(<<0, 0>>)
    ELSE IF pmf_raises(xg_home) \/ pmf_raises(xg_away) THEN Returns(<<NaN, NaN>>)
    ELSE LET acc == xp_loop(max_goals, xg_home, xg_away, 0)
         IN  Returns(<<round_mass(acc.xp_home + acc.p_draw),
                       round_mass(acc.xp_away + acc.p_draw)>>)

\* compute_xp without the draw mass added to the away side
compute_xp_draw_home_only(max_goals, xg_home, xg_away) ==
    IF isna_or(xg_home, xg_away) = "ValueError" THEN Raises("ValueError")
    ELSE IF isna_or(xg_home, xg_away) = "True" THEN Returns(<<NaN, NaN>>)
    ELSE IF pmf_raises(xg_home) \/ pmf_raises(xg_away) THEN Returns(<<NaN, NaN>>)
    ELSE LET acc == xp_loop(max_goals, xg_home, xg_away, 0)
         IN  Returns(<<round_mass(acc.xp_home + acc.p_draw),
                       round_mass(acc.xp_away)>>)

\* compute_xp without the try ... except around the loops
compute_xp_without_try(max_goals, xg_home, xg_away) ==
    IF isna_or(xg_home, xg_away) = "ValueError" THEN Raises("ValueError")
    ELSE IF isna_or(xg_home, xg_away) = "True" THEN Returns(<<NaN, NaN>>)
    ELSE IF pmf_raises(xg_home) \/ pmf_raises(xg_away) THEN Raises("TypeError")
    ELSE LET acc == xp_loop(max_goals, xg_home, xg_away, 0)
         IN  Returns(<<round_mass(acc.xp_home + acc.p_draw),
                       round_mass(acc.xp_away + acc.p_draw)>>)

\* compute_xp(xg_home, xg_away) of a calculator with self.max_goals =
\* max_goals >= 0: the guard, outside the try; the loops, whose first
\* poisson.pmf call raises inside the try for a text argument; the except
\* branch; the draw mass added to both sides; the rounding
compute_xp(max_goals, xg_home, xg_away) ==
    IF isna_or(xg_home, xg_away) = "ValueError" THEN Raises("ValueError")
    ELSE IF isna_or(xg_home, xg_away) = "True" THEN Returns(<<NaN, NaN>>)
    ELSE IF pmf_raises(xg_home) \/ pmf_raises(xg_away) THEN Returns(<<NaN, NaN>>)
    ELSE LET acc == xp_loop(max_goals, xg_home, xg_away, 0)
         IN  Returns(<<round_mass(acc.xp_home + acc.p_draw),
                       round_mass(acc.xp_away + acc.p_draw)>>)

\* the body of calculate_match_probabilities' loops with the away wins
\* counted as draws
prob_add_away_as_draw(acc, h, a, p_scoreline) ==
    IF h > a THEN [acc EXCEPT !.p_home_win = @ + p_scoreline]
    ELSE IF h = a THEN [acc EXCEPT !.p_draw = @ + p_scoreline]
    ELSE [acc EXCEPT !.p_draw = @ + p_scoreline, !.p_away_win = @ + p_scoreline]

\* the body of calculate_match_probabilities' loops for the scoreline h : a
prob_add(acc, h, a, p_scoreline) ==
    IF h > a THEN [acc EXCEPT !.p_home_win = @ + p_scoreline]
    ELSE IF h < a THEN [acc EXCEPT !.p_away_win = @ + p_scoreline]
    ELSE [acc EXCEPT !.p_draw = @ + p_scoreline]

\* calculate_match_probabilities' inner loop, for a in range(max_goals + 1)
RECURSIVE prob_inner(_, _, _, _, _)
prob_inner(max_goals, xg_home, xg_away, h, a) ==
    IF a > max_goals THEN [p_home_win |-> 0, p_draw |-> 0, p_away_win |-> 0]
    ELSE LET p_home == poisson_pmf(h, xg_home)
             p_away == poisson_pmf(a, xg_away)
             p_scoreline == p_home * p_away
         IN  prob_add(prob_inner(max_goals, xg_home, xg_away, h, a + 1),
                      h, a, p_scoreline)

\* calculate_match_probabilities' outer loop, for h in range(max_goals + 1)
RECURSIVE prob_loop(_, _, _, _)
prob_loop(max_goals, xg_home, xg_away, h) ==
    IF h > max_goals THEN [p_home_win |-> 0, p_draw |-> 0, p_away_win |-> 0]
    ELSE LET row == prob_inner(max_goals, xg_home, xg_away, h, 0)
             rest == prob_loop(max_goals, xg_home, xg_away, h + 1)
         IN  [p_home_win |-> row.p_home_win + rest.p_home_win,
              p_draw     |-> row.p_draw + rest.p_draw,
              p_away_win |-> row.p_away_win + rest.p_away_win]

\* calculate_match_probabilities(xg_home, xg_away)
calculate_match_probabilities(max_goals, xg_home, xg_away) ==
    IF isna_or(xg_home, xg_away) = "ValueError" THEN Raises("ValueError")
    ELSE IF isna_or(xg_home, xg_away) = "True" THEN Returns(<<NaN, NaN, NaN>>)
    ELSE IF pmf_raises(xg_home) \/ pmf_raises(xg_away) THEN Returns(<<NaN, NaN, NaN>>)
    ELSE LET acc == prob_loop(max_goals, xg_home, xg_away, 0)
         IN  Returns(<<round_mass(acc.p_home_win), round_mass(acc.p_draw),
                       round_mass(acc.p_away_win)>>)

----------------------------------------------------------------------------
(* XPCalculator.process_matches_file                                       *)

home_xg_candidates == {"home_xG", "Home_xG", "xG_home", "xg_home"}

away_xg_candidates == {"away_xG", "Away_xG", "xG_away", "xg_away"}

\* the loop of _find_xg_columns for one side: the last column that is a
\* candidate, "" (None) when there is none
last_candidate(columns, candidates) ==
    LET found == {i \in 1..Len(columns) : columns[i] \in candidates}
    IN  IF found = {} THEN "" ELSE columns[Max(found)]

\* _find_xg_columns(columns): the pair, <<>> for None
find_xg_columns(columns) ==
    LET home_xg_col == last_candidate(columns, home_xg_candidates)
        away_xg_col == last_candidate(columns, away_xg_candidates)
    IN  IF home_xg_col # "" /\ away_xg_col # "" THEN <<home_xg_col, away_xg_col>>
        ELSE <<>>

\* the columns process_matches_file assigns, in the order it assigns them
xp_columns == <<"home_xP", "away_xP", "home_win_prob", "draw_prob", "away_win_prob">>

\* the columns after df[c] = 0.0 for each of them: a column the file has
\* keeps its place, a new one goes to the end
assign_columns(columns) ==
    LET is_new(c) == c \notin Range(columns)
    IN  columns \o SelectSeq(xp_columns, is_new)

\* what df.at[idx, ...] = ... leaves in a record: the five cells from the two
\* calls, every other cell as read
assign_outputs(row, xp, prob) ==
    [c \in DOMAIN row \cup Range(xp_columns) |->
        CASE c = "home_xP"       -> xp[1]
          [] c = "away_xP"       -> xp[2]
          [] c = "home_win_prob" -> prob[1]
          [] c = "draw_prob"     -> prob[2]
          [] c = "away_win_prob" -> prob[3]
          [] OTHER               -> row[c]]

\* process_matches_file that leaves the xP cells a record already has
process_row_keeps_old(max_goals, row, home_xg_col, away_xg_col) ==
    LET home_xg == Float(row[home_xg_col])
        away_xg == Float(row[away_xg_col])
        xp == compute_xp(max_goals, home_xg, away_xg)
        prob == calculate_match_probabilities(max_goals, home_xg, away_xg)
    IN  [raised |-> xp.raised # "none" \/ prob.raised # "none",
         row |-> IF xp.raised # "none" \/ prob.raised # "none" THEN row
                 ELSE IF "home_xP" \in DOMAIN row
                      THEN assign_outputs(row, <<row["home_xP"], row["away_xP"]>>,
                                          prob.value)
                      ELSE assign_outputs(row, xp.value, prob.value)]

\* one iteration of the loop over df.iterrows(): the record after it, and
\* whether a call raised
process_row(max_goals, row, home_xg_col, away_xg_col) ==
    LET home_xg == Float(row[home_xg_col])
        away_xg == Float(row[away_xg_col])
        xp == compute_xp(max_goals, home_xg, away_xg)
        prob == calculate_match_probabilities(max_goals, home_xg, away_xg)
    IN  [raised |-> xp.raised # "none" \/ prob.raised # "none",
         row |-> IF xp.raised # "none" \/ prob.raised # "none" THEN row
                 ELSE assign_outputs(row, xp.value, prob.value)]

\* a return value of None
NoFrame == [kind |-> "None", columns |-> <<>>, rows |-> <<>>]

\* process_matches_file(file_path) for the file at file_path: None when
\* pd.read_csv raises, when no xG column pair is found, or when the loop
\* raises; else the data frame with the five columns assigned
process_matches_file(max_goals, file) ==
    IF file.kind = "corrupt" THEN NoFrame
    ELSE LET xg_columns == find_xg_columns(file.columns)
         IN  IF xg_columns = <<>> THEN NoFrame
             ELSE LET done == [i \in 1..Len(file.rows) |->
                                  process_row(max_goals, file.rows[i],
                                              xg_columns[1], xg_columns[2])] \o <<>>
                  IN  IF \E i \in 1..Len(done) : done[i].raised THEN NoFrame
                      ELSE [kind |-> "matches",
                            columns |-> assign_columns(file.columns),
                            rows |-> [i \in 1..Len(done) |-> done[i].row] \o <<>>]

----------------------------------------------------------------------------
(* GenerateClassicStandings in src/src/calculators/standings_calculator.py *)

kw_soccerway == <<"s", "o", "c", "c", "e", "r", "w", "a", "y">>

kw_footystats == <<"f", "o", "o", "t", "y", "s", "t", "a", "t", "s">>

sfx_xg_csv == <<"_", "x", "g", ".", "c", "s", "v">>

\* 'sub' in s
contains(s, sub) == \E i \in 1..Len(s) : startswith_at(s, i, sub)

\* the filter of calculate_points_per_spieltag on the names of os.listdir
is_spieltag_file(f) ==
    /\ endswith(f, sfx_csv)
    /\ ~endswith(f, sfx_xg_csv)
    /\ ~endswith(f, sfx_xp_csv)
    /\ (contains(f, kw_soccerway) \/ contains(f, kw_footystats))

\* the filter of calculate_classic_standings on the names of os.listdir
is_standings_csv(f) ==
    /\ endswith(f, sfx_csv)
    /\ ~endswith(f, sfx_xg_csv)
    /\ ~endswith(f, sfx_xp_csv)

\* re.search(r'spieltag-(\d+)', f): the group of the leftmost match, as the
\* set holding it, or {} without a match
search_spieltag_dash(f) ==
    LET n == Len(lbl_spieltag_dash)
        hits == {i \in 1..Len(f) :
                    /\ startswith_at(f, i, lbl_spieltag_dash)
                    /\ i + n <= Len(f)
                    /\ isdigit(f[i + n])}
    IN  IF hits = {} THEN {}
        ELSE LET i == Min(hits) IN {SubSeq(f, i + n, digits_end(f, i + n))}

\* the if / elif / else on the goals of a record: the points of the home and
\* of the away side; every comparison with a missing score (NaN) is false,
\* which leaves the else branch
match_points(home_goals, away_goals) ==
    IF notna(home_goals) /\ notna(away_goals) /\ home_goals > away_goals
    THEN <<3, 0>>
    ELSE IF notna(home_goals) /\ notna(away_goals) /\ home_goals = away_goals
    THEN <<1, 1>>
    ELSE <<0, 3>>

\* a dict in insertion order: its keys in that order, and its values
EmptyPoints == [order |-> <<>>, value |-> [t \in {} |-> 0]]

\* d[team] = d.get(team, 0) + points
add_points(d, team, points) ==
    IF team \in DOMAIN d.value
    THEN [d EXCEPT !.value[team] = @ + points]
    ELSE [order |-> Append(d.order, team),
          value |-> [t \in DOMAIN d.value \cup {team} |->
                       IF t = team THEN points ELSE d.value[t]]]

\* points_this_spieltag after the first k records of a file
RECURSIVE points_this_spieltag(_, _)
points_this_spieltag(rows, k) ==
    IF k = 0 THEN EmptyPoints
    ELSE LET row == rows[k]
             points == match_points(row.home_goals, row.away_goals)
         IN  add_points(add_points(points_this_spieltag(rows, k - 1),
                                   row.home_team, points[1]),
                        row.away_team, points[2])

\* reading the file or a record of it raises: pd.read_csv fails, or a column
\* the loop reads is not there
file_raises(file) ==
    \/ file.kind = "corrupt"
    \/ /\ file.rows # <<>>
       /\ ~({"home_team", "away_team", "home_goals", "away_goals"}
              \subseteq Range(file.columns))

\* team_points.append of the file's points, for the teams of the file in
\* their order
RECURSIVE append_points(_, _, _)
append_points(team_points, this_spieltag, k) ==
    IF k = 0 THEN team_points
    ELSE LET before == append_points(team_points, this_spieltag, k - 1)
             team == this_spieltag.order[k]
         IN  IF team \in DOMAIN before.value
             THEN [before EXCEPT
                       !.value[team] = Append(@, this_spieltag.value[team])]
             ELSE [order |-> Append(before.order, team),
                   value |-> [t \in DOMAIN before.value \cup {team} |->
                                IF t = team THEN <<this_spieltag.value[team]>>
                                ELSE before.value[t]]]

\* "ensure all teams have a value for this spieltag": one None for every
\* list shorter than idx
pad_points(team_points, idx) ==
    [team_points EXCEPT
        !.value = [t \in DOMAIN @ |-> IF Len(@[t]) < idx THEN Append(@[t], None)
                                      ELSE @[t]]]

\* the body of the loop over enumerate(spieltag_files, start=1): the
\* except branch leaves team_points as it was
process_spieltag_file(team_points, idx, file) ==
    IF file_raises(file) THEN team_points
    ELSE LET this_spieltag == points_this_spieltag(file.rows, Len(file.rows))
         IN  pad_points(append_points(team_points, this_spieltag,
                                      Len(this_spieltag.order)), idx)

\* team_points after the first k files
RECURSIVE team_points_after(_, _)
team_points_after(files, k) ==
    IF k = 0 THEN EmptyPoints
    ELSE process_spieltag_file(team_points_after(files, k - 1), k, files[k])

\* pd.DataFrame.from_dict(team_points, orient='index'): one row per team in
\* the order of the dict, as many columns as the longest list, NaN in the
\* cells a shorter list does not reach and for None
from_dict(team_points) ==
    LET width == IF team_points.order = <<>> THEN 0
                 ELSE Max({Len(team_points.value[t]) : t \in DOMAIN team_points.value})
    IN  [width |-> width,
         rows |-> [i \in 1..Len(team_points.order) |->
                     LET team == team_points.order[i]
                         cells == team_points.value[team]
                     IN  [Team |-> team,
                          points |-> [j \in 1..width |->
                                        IF j <= Len(cells) THEN cells[j] ELSE NaN]
                                     \o <<>>]] \o <<>>]

\* the list comprehension over os.listdir(csv_folder) of
\* calculate_points_per_spieltag: the files kept, in the listing's order
listed_spieltag_files(listing) ==
    LET keep(entry) == is_spieltag_file(entry.name)
    IN  SelectSeq(listing, keep)

\* the list comprehension over os.listdir(csv_folder) of
\* calculate_classic_standings
listed_standings_csv(listing) ==
    LET keep(entry) == is_standings_csv(entry.name)
    IN  SelectSeq(listing, keep)

\* calculate_points_per_spieltag(csv_folder): df_points, or the ValueError
\* of df_points.columns = [...] when the frame has not one column per file
calculate_points_per_spieltag(listing) ==
    LET spieltag_files == listed_spieltag_files(listing)
        files == [i \in 1..Len(spieltag_files) |-> spieltag_files[i].file] \o <<>>
        df_points == from_dict(team_points_after(files, Len(files)))
    IN  IF df_points.width # Len(spieltag_files) THEN Raises("ValueError")
        ELSE Returns(df_points.rows)

\* what calculate_classic_standings leaves: the exception that escaped it,
\* df_points, latest_spieltag, and the rows of df_standings it wrote
StandingsOutcome(raised, df_points, latest_spieltag, df_standings) ==
    [raised |-> raised, df_points |-> df_points,
     latest_spieltag |-> latest_spieltag, df_standings |-> df_standings]

\* calculate_classic_standings(csv_folder) of an instance: the points per
\* file, latest_spieltag from the file names (the else branch reads
\* spieltag_columns before its assignment), Total Points, the sort
calculate_classic_standings(listing, order_of_ties) ==
    LET points == calculate_points_per_spieltag(listing)
        spieltag_files == listed_standings_csv(listing)
        spieltag_numbers ==
            UNION {{int(g) : g \in search_spieltag_dash(spieltag_files[i].name)} :
                      i \in 1..Len(spieltag_files)}
        totals == [i \in 1..Len(points.value) |->
                      <<points.value[i].Team, sum_skipna(points.value[i].points)>>]
                  \o <<>>
    IN  IF points.raised # "none"
        THEN StandingsOutcome(points.raised, <<>>, None, <<>>)
        ELSE IF spieltag_numbers = {}
        THEN StandingsOutcome("UnboundLocalError", points.value, None, <<>>)
        ELSE StandingsOutcome("none", points.value, Max(spieltag_numbers),
                              sort_values(totals, 2, order_of_ties))

----------------------------------------------------------------------------
(* WeeklyUpdateManager in src/src/automation.py                            *)

\* self.standard_standings = GenerateClassicStandings: the class, not an
\* instance of it
standard_standings == "class"

\* receiver.calculate_classic_standings(source_dir), of a method declared
\* (self, csv_folder): through the class, source_dir is bound to self and
\* csv_folder is missing, a TypeError before the body runs
call_calculate_classic_standings(receiver, listing, order_of_ties) ==
    IF receiver = "instance" THEN calculate_classic_standings(listing, order_of_ties)
    ELSE StandingsOutcome("TypeError", <<>>, None, <<>>)

\* step5_create_standard_standings(): success, and the outcome of the call
\* in its try
step5_create_standard_standings(receiver, listing, order_of_ties) ==
    LET outcome == call_calculate_classic_standings(receiver, listing, order_of_ties)
    IN  [success |-> outcome.raised = "none", outcome |-> outcome]

\* the names in the list steps of run_pipeline_for_spieltag
steps == <<"Scrape Fixtures", "Scrape xG", "Calculate xP", "Create Standard Standings">>

\* the loop over steps that goes on after a step returned False
loop_after_ignores_failure(k, ok) ==
    IF k = Len(steps) THEN [next_step |-> 0, returned |-> <<TRUE>>]
    ELSE [next_step |-> k + 1, returned |-> <<>>]

\* the loop over steps after step k returned ok: return False at once, go on
\* to the next step, or return True after the last one
loop_after(k, ok) ==
    IF ~ok THEN [next_step |-> 0, returned |-> <<FALSE>>]
    ELSE IF k = Len(steps) THEN [next_step |-> 0, returned |-> <<TRUE>>]
    ELSE [next_step |-> k + 1, returned |-> <<>>]

----------------------------------------------------------------------------
(* BaseScraper.make_request in src/src/utils/scraper_base.py               *)

\* the status codes the if / elif chain tells apart, and one it does not
StatusCodes == {200, 403, 404, 429, 500}

\* what session.get raises: requests.exceptions.Timeout,
\* requests.exceptions.ConnectionError, or any other Exception
GetExceptions == {"Timeout", "ConnectionError", "Exception"}

\* the response of the n-th session.get
Response(status_code, n) == [kind |-> "Response", status_code |-> status_code, request |-> n]

\* the n-th session.get raised
Failure(exception, n) == [kind |-> exception, status_code |-> 0, request |-> n]

\* return None
NoResponse == [kind |-> "None", status_code |-> 0, request |-> 0]

\* the loop that tries again after a 404
after_get_retries_404(attempt_now, outcome) ==
    IF outcome.kind = "Response" /\ outcome.status_code = 200
    THEN [attempt |-> attempt_now, returned |-> <<Returns(outcome)>>]
    ELSE [attempt |-> attempt_now + 1, returned |-> <<>>]

\* the body of the loop after session.get: return response on 200, return
\* None on 404; every other status and every exception is logged (the three
\* except clauses catch all of them) and the loop goes on
after_get(attempt_now, outcome) ==
    IF outcome.kind = "Response" /\ outcome.status_code = 200
    THEN [attempt |-> attempt_now, returned |-> <<Returns(outcome)>>]
    ELSE IF outcome.kind = "Response" /\ outcome.status_code = 404
    THEN [attempt |-> attempt_now, returned |-> <<Returns(NoResponse)>>]
    ELSE [attempt |-> attempt_now + 1, returned |-> <<>>]

----------------------------------------------------------------------------
(* Config in src/src/utils/config.py, and the selection of spieltags in    *)
(* src/src/automation.py                                                   *)

\* 'footystats,soccerway', the default of os.getenv('ENABLED_SOURCES', ...);
\* a value is the sequence of its words, commas and blanks
default_enabled_sources == <<"footystats", ",", "soccerway">>

\* os.getenv(name, default) of a variable that is not set (<<>>) or set
getenv(environ, default) == IF environ = <<>> THEN default ELSE environ[1]

\* sources.split(','): the parts between the commas
RECURSIVE split_comma(_)
split_comma(sources) ==
    LET commas == {j \in 1..Len(sources) : sources[j] = ","}
    IN  IF commas = {} THEN <<sources>>
        ELSE <<SubSeq(sources, 1, Min(commas) - 1)>>
             \o split_comma(SubSeq(sources, Min(commas) + 1, Len(sources)))

\* s.strip() of a part: the word between the blanks, '' when there is none
strip(part) ==
    LET word(t) == t # " "
    IN  IF SelectSeq(part, word) = <<>> THEN "" ELSE SelectSeq(part, word)[1]

\* the property Config.ENABLED_SOURCES: a new list at every read
ENABLED_SOURCES(environ) ==
    LET parts == split_comma(getenv(environ, default_enabled_sources))
    IN  [i \in 1..Len(parts) |-> strip(parts[i])] \o <<>>

\* a kickoff time as SPIELTAG_MAP holds it: a text in the format
\* "%Y-%m-%d %H:%M:%S" standing for a day, or a text in another format
Kickoff(day) == [in_format |-> TRUE, day |-> day]

OtherText == [in_format |-> FALSE, day |-> 0]

\* datetime.strptime(match_datetime_str, "%Y-%m-%d %H:%M:%S")
strptime(match_datetime_str) ==
    IF match_datetime_str.in_format THEN Returns(match_datetime_str.day)
    ELSE Raises("ValueError")

\* a file of a source directory: <prefix>spieltag-<n><suffix>
DataFile(n, suffix) == [spieltag |-> n, suffix |-> suffix]

\* source_dir.glob(f"*spieltag-{spieltag}_xp.csv")
glob_xp(source_dir, n) == {f \in source_dir : f.spieltag = n /\ f.suffix = "_xp.csv"}

\* a spieltag counts as processed when one source has its xP file
is_spieltag_processed_any_source(enabled, dirs, n) ==
    \E i \in 1..Len(enabled) : glob_xp(dirs[enabled[i]], n) # {}

\* _is_spieltag_processed(spieltag): False at the first enabled source
\* whose directory has no xP file of the spieltag, True after the loop
is_spieltag_processed(enabled, dirs, n) ==
    \A i \in 1..Len(enabled) : glob_xp(dirs[enabled[i]], n) # {}

\* sorted(list) of a list of numbers
RECURSIVE sorted_list(_)
sorted_list(l) ==
    IF l = <<>> THEN <<>>
    ELSE LET least == Min(Range(l))
             at == Min({i \in 1..Len(l) : l[i] = least})
         IN  <<least>> \o sorted_list(without(l, at))

\* spieltags_to_process after the first k items of SPIELTAG_MAP
RECURSIVE to_process_after(_, _, _, _, _, _)
to_process_after(map, k, today, lookback, enabled, dirs) ==
    IF k = 0 THEN <<>>
    ELSE LET before == to_process_after(map, k - 1, today, lookback, enabled, dirs)
             spieltag_number == map[k][1]
             match_datetime == strptime(map[k][2])
             cutoff_date == today - lookback
         IN  IF match_datetime.raised # "none" THEN before
             ELSE IF /\ cutoff_date <= match_datetime.value
                     /\ match_datetime.value <= today
                     /\ ~is_spieltag_processed(enabled, dirs, spieltag_number)
             THEN Append(before, spieltag_number)
             ELSE before

\* get_spieltags_to_process(lookback_days)
get_spieltags_to_process(map, today, lookback, environ, dirs) ==
    sorted_list(to_process_after(map, Len(map), today, lookback,
                                 ENABLED_SOURCES(environ), dirs))

\* the loop of get_current_spieltag from item k on: the last spieltag whose
\* kickoff is not after now, up to the first one whose kickoff is
RECURSIVE current_spieltag_from(_, _, _, _)
current_spieltag_from(map, k, today, current_spieltag) ==
    IF k > Len(map) THEN current_spieltag
    ELSE LET match_datetime == strptime(map[k][2])
         IN  IF match_datetime.raised # "none"
             THEN current_spieltag_from(map, k + 1, today, current_spieltag)
             ELSE IF today >= match_datetime.value
             THEN current_spieltag_from(map, k + 1, today, map[k][1])
             ELSE current_spieltag

\* get_current_spieltag()
get_current_spieltag(map, today) == current_spieltag_from(map, 1, today, None)

----------------------------------------------------------------------------
(* WeeklyUpdateManager.run_full_pipeline in src/src/automation.py          *)

\* the loop over steps from step k on, given what each step returns
RECURSIVE steps_from(_, _)
steps_from(k, step_results) ==
    IF loop_after(k, step_results[k]).returned # <<>>
    THEN loop_after(k, step_results[k]).returned[1]
    ELSE steps_from(loop_after(k, step_results[k]).next_step, step_results)

\* run_pipeline_for_spieltag(spieltag), given what steps 1 to 3 return for
\* the spieltag; step 5 returns what its code gives
run_pipeline_for_spieltag(ok1, ok2, ok3, receiver, listing, order_of_ties) ==
    steps_from(1, <<ok1, ok2, ok3,
                    step5_create_standard_standings(receiver, listing,
                                                    order_of_ties).success>>)

\* the head of run_full_pipeline: the list spieltags, or the early return
select_spieltags(force, map, today, lookback, environ, dirs) ==
    IF force
    THEN LET current_spieltag == get_current_spieltag(map, today)
         IN  IF current_spieltag # None /\ current_spieltag # 0
             THEN [spieltags |-> <<current_spieltag>>, returned |-> <<>>]
             ELSE [spieltags |-> <<>>, returned |-> <<FALSE>>]
    ELSE LET to_process == get_spieltags_to_process(map, today, lookback, environ, dirs)
         IN  IF to_process = <<>>
             THEN [spieltags |-> <<>>, returned |-> <<TRUE>>]
             ELSE [spieltags |-> to_process, returned |-> <<>>]

\* the end of run_full_pipeline with step 4 called whatever the count
after_spieltags_always_updates(count, selected) ==
    [step4 |-> TRUE, returned |-> count = Len(selected)]

\* the end of run_full_pipeline: step 4 when success_count > 0, and the
\* return value
after_spieltags(count, selected) ==
    [step4 |-> count > 0, returned |-> count = Len(selected)]

----------------------------------------------------------------------------
(* run_pipeline in src/main.py                                             *)

\* target[:] = values: the list object target holds the elements of values
slice_assign(target, values) == values

\* the if args.sources block: original_sources is a copy of the list one
\* read of config.ENABLED_SOURCES gave, and the slice assignment goes into
\* the list another read gave; the environment the property reads is not
\* touched
override_sources(environ, sources) ==
    [original_sources |-> ENABLED_SOURCES(environ),
     temporary |-> slice_assign(ENABLED_SOURCES(environ), sources),
     environ |-> environ]

\* the finally block: the slice assignment goes into one more new list
restore_sources(environ, original) ==
    [temporary |-> slice_assign(ENABLED_SOURCES(environ), original),
     environ |-> environ]

----------------------------------------------------------------------------
(* process_directory                                                       *)

Directories ==
    UNION { {d \in [S -> FileContents] : \A n \in S : d[n] \in ContentsOf(n)} :
            S \in {T \in SUBSET FileNames : Cardinality(T) <= MaxFiles} }

\* the arrangements of equal sort keys a build's sort may produce
TieOrders ==
    {o \in [Teams -> 1..Cardinality(Teams)] : \A t, u \in Teams : t # u => o[t] # o[u]}

NoDirectory == [n \in {} |-> CorruptFile]

NameIdle ==
    /\ filename = <<>>
    /\ name_pc = "idle"
    /\ spieltag = None

MatchIdle ==
    /\ match_df = CorruptFile
    /\ match_metric = "xP"
    /\ match_pc = "idle"
    /\ match_values = EmptyDict

OutcomeIdle ==
    /\ self_max_goals = default_max_goals
    /\ arg_xg_home = PyNone
    /\ arg_xg_away = PyNone
    /\ xp_returned = <<>>
    /\ prob_returned = <<>>

MatchesIdle ==
    /\ matches_file = CorruptFile
    /\ matches_returned = <<>>

PipelineIdle ==
    /\ pipeline_spieltag = 1
    /\ next_step = 0
    /\ steps_run = <<>>
    /\ step_returns = <<>>
    /\ pipeline_returned = <<>>

StandingsIdle ==
    /\ soccerway_dir = <<>>
    /\ sort_ties = [t \in Teams |-> IndexIn(TeamNames, t)]
    /\ standings_returned = <<>>

RequestIdle ==
    /\ max_retries = 0
    /\ attempt = 0
    /\ responses = <<>>
    /\ request_returned = <<>>

ConfigIdle ==
    /\ os_environ = <<>>
    /\ SPIELTAG_MAP = <<>>

SelectIdle ==
    /\ now = 0
    /\ lookback_days = 0
    /\ source_dirs = [s \in {} |-> {}]
    /\ spieltags_to_process = <<>>

FullIdle ==
    /\ force_current = FALSE
    /\ full_pc = "idle"
    /\ pipeline_spieltags = <<>>
    /\ attempts = <<>>
    /\ success_count = 0
    /\ step4_calls = 0
    /\ full_returned = <<>>

RunIdle ==
    /\ args_sources = <<>>
    /\ original_sources = <<>>
    /\ temporaries = <<>>
    /\ step_sources = <<>>
    /\ run_pc = "idle"

AutomationIdle ==
    /\ RequestIdle
    /\ ConfigIdle
    /\ SelectIdle
    /\ FullIdle
    /\ RunIdle

SeasonIdle ==
    /\ directory = NoDirectory
    /\ tie_order = [t \in Teams |-> IndexIn(TeamNames, t)]
    /\ pc = "done"
    /\ runs = 0
    /\ season_files = [m \in Metrics |-> <<>>]
    /\ returned = [m \in Metrics |-> <<>>]
    /\ log = [m \in Metrics |-> {}]
    /\ globbed = [m \in Metrics |-> {}]

Init ==
    /\ AutomationIdle
    /\ directory \in Directories
    /\ tie_order \in TieOrders
    /\ pc = "xP"
    /\ runs = 0
    /\ season_files = [m \in Metrics |-> <<>>]
    /\ returned = [m \in Metrics |-> <<>>]
    /\ log = [m \in Metrics |-> {}]
    /\ globbed = [m \in Metrics |-> {}]
    /\ NameIdle
    /\ MatchIdle
    /\ OutcomeIdle
    /\ MatchesIdle
    /\ StandingsIdle
    /\ PipelineIdle

\* one iteration of the loop over ['xP', 'xG']: create_season_table, and
\* save_season_table when a table came back
ProcessMetric ==
    /\ pc \in Metrics
    /\ LET r == create_season_table(disk(directory, season_files), pc, tie_order)
       IN  /\ returned' = [returned EXCEPT ![pc] = r.value]
           /\ log' = [log EXCEPT ![pc] = r.log]
           /\ globbed' = [globbed EXCEPT ![pc] = r.files]
           /\ season_files' = IF r.value # <<>>
                              THEN save_season_table(season_files, r.value[1], pc)
                              ELSE season_files
    /\ pc' = IF pc = "xP" THEN "xG"
             ELSE IF runs + 1 < MaxRuns THEN "xP" ELSE "done"
    /\ runs' = IF pc = "xG" THEN runs + 1 ELSE runs
    /\ UNCHANGED <<automation_vars, directory, tie_order, name_vars, match_vars, outcome_vars, matches_vars,
                 standings_vars, pipeline_vars>>

Next == ProcessMetric

Spec == Init /\ [][Next]_vars

----------------------------------------------------------------------------
(* _extract_spieltag_from_filename on its own                              *)

InitName ==
    /\ AutomationIdle
    /\ InitFilename
    /\ SeasonIdle
    /\ MatchIdle
    /\ OutcomeIdle
    /\ MatchesIdle
    /\ StandingsIdle
    /\ PipelineIdle

NextName == ExtractSpieltag /\ UNCHANGED <<automation_vars, season_vars, match_vars, outcome_vars, matches_vars, standings_vars,
                 pipeline_vars>>

SpecName == InitName /\ [][NextName]_vars

----------------------------------------------------------------------------
(* _extract_team_values on its own                                         *)

\* the records of the match files handed to it
MatchRows ==
    {MatchRow(h, a, <<15000, xg_away>>, <<xp_home, xp_away>>) :
        h \in {"Aachen", NoTeam}, a \in {"Bielefeld", NoTeam},
        xg_away \in {10625, NaN}, xp_home \in {12000, 9000, NaN}, xp_away \in {8000, NaN}}

RECURSIVE RowLists(_)
RowLists(k) ==
    IF k = 0 THEN {<<>>}
    ELSE LET shorter == RowLists(k - 1)
         IN  shorter \cup {Append(rows, r) : rows \in shorter, r \in MatchRows}

InitMatch ==
    /\ AutomationIdle
    /\ match_df \in {MatchFile(rows) : rows \in RowLists(MaxRows)} \cup {FixturesFile}
    /\ match_metric \in Metrics
    /\ match_pc = "call"
    /\ match_values = EmptyDict
    /\ SeasonIdle
    /\ NameIdle
    /\ OutcomeIdle
    /\ MatchesIdle
    /\ StandingsIdle
    /\ PipelineIdle

ExtractTeamValues ==
    /\ match_pc = "call"
    /\ match_values' = extract_team_values(match_df, match_metric)
    /\ match_pc' = "returned"
    /\ UNCHANGED <<match_df, match_metric>>

NextMatch == ExtractTeamValues /\ UNCHANGED <<automation_vars, season_vars, name_vars, outcome_vars, matches_vars, standings_vars,
                 pipeline_vars>>

SpecMatch == InitMatch /\ [][NextMatch]_vars

----------------------------------------------------------------------------
(* The match outcome model on its own                                      *)

\* the arguments handed to it
XgArguments == {Float(v) : v \in MuValues \cup {NaN}} \cup {PyNone, PyStr, PyList}

\* the scoreline limits of the calculators
GoalLimits == {2, default_max_goals, 12}

InitOutcome ==
    /\ AutomationIdle
    /\ self_max_goals \in GoalLimits
    /\ arg_xg_home \in XgArguments
    /\ arg_xg_away \in XgArguments
    /\ xp_returned = <<>>
    /\ prob_returned = <<>>
    /\ SeasonIdle
    /\ NameIdle
    /\ MatchIdle
    /\ MatchesIdle
    /\ StandingsIdle
    /\ PipelineIdle

ComputeXP ==
    /\ xp_returned = <<>>
    /\ xp_returned' = <<compute_xp(self_max_goals, arg_xg_home, arg_xg_away)>>
    /\ UNCHANGED <<self_max_goals, arg_xg_home, arg_xg_away, prob_returned>>

CalculateMatchProbabilities ==
    /\ prob_returned = <<>>
    /\ prob_returned' =
           <<calculate_match_probabilities(self_max_goals, arg_xg_home, arg_xg_away)>>
    /\ UNCHANGED <<self_max_goals, arg_xg_home, arg_xg_away, xp_returned>>

NextOutcome ==
    \/ ComputeXP
          /\ UNCHANGED <<automation_vars, season_vars, name_vars, match_vars, matches_vars, standings_vars,
                         pipeline_vars>>
    \/ CalculateMatchProbabilities
          /\ UNCHANGED <<automation_vars, season_vars, name_vars, match_vars, matches_vars, standings_vars,
                         pipeline_vars>>

SpecOutcome == InitOutcome /\ [][NextOutcome]_vars

----------------------------------------------------------------------------
(* process_matches_file on its own                                         *)

\* the headers of the files handed to it: the scraper's columns, another
\* naming of the xG columns, both namings, one side only, no xG column, and
\* a file that went through process_matches_file before
XgHeaders ==
    {<<"home_team", "away_team", "home_xG", "away_xG">>,
     <<"home_team", "away_team", "xG_home", "xG_away">>,
     <<"home_team", "away_team", "home_xG", "away_xG", "xG_home", "xG_away">>,
     <<"home_team", "away_team", "home_xG">>,
     <<"home_team", "away_team">>,
     <<"home_team", "home_xP", "away_team", "home_xG", "away_xG", "away_xP",
       "home_win_prob", "draw_prob", "away_win_prob">>}

\* the xG cells of a record
XgCells == {15000, 10000, NaN}

\* the i-th record of a file with the given header: the xG given, under the
\* second naming the two sides' xG exchanged, and in the xP columns the values
\* of an earlier calculation
XgRow(columns, i, home_xg, away_xg) ==
    [c \in Range(columns) |->
        CASE c = "home_team" -> TeamNames[((i - 1) % Len(TeamNames)) + 1]
          [] c = "away_team" -> TeamNames[(i % Len(TeamNames)) + 1]
          [] c = "home_xG" -> home_xg
          [] c = "away_xG" -> away_xg
          [] c = "xG_home" -> away_xg
          [] c = "xG_away" -> home_xg
          [] c = "home_xP" -> 12000
          [] c = "away_xP" -> 8000
          [] c = "home_win_prob" -> 3000
          [] c = "draw_prob" -> 3000
          [] c = "away_win_prob" -> 4000]

RECURSIVE XgRowLists(_, _)
XgRowLists(columns, k) ==
    IF k = 0 THEN {<<>>}
    ELSE LET shorter == XgRowLists(columns, k - 1)
         IN  shorter \cup
             {Append(rows, XgRow(columns, Len(rows) + 1, home_xg, away_xg)) :
                 rows \in {r \in shorter : Len(r) = k - 1},
                 home_xg \in XgCells, away_xg \in XgCells}

XgFiles ==
    {CorruptFile} \cup
    UNION {{[kind |-> "matches", columns |-> columns, rows |-> rows] :
               rows \in XgRowLists(columns, MaxRows)} : columns \in XgHeaders}

InitMatches ==
    /\ AutomationIdle
    /\ matches_file \in XgFiles
    /\ matches_returned = <<>>
    /\ SeasonIdle
    /\ NameIdle
    /\ MatchIdle
    /\ OutcomeIdle
    /\ StandingsIdle
    /\ PipelineIdle

ProcessMatchesFile ==
    /\ matches_returned = <<>>
    /\ matches_returned' = <<process_matches_file(self_max_goals, matches_file)>>
    /\ UNCHANGED matches_file

NextMatches ==
    ProcessMatchesFile
        /\ UNCHANGED <<automation_vars, season_vars, name_vars, match_vars, outcome_vars, standings_vars,
                       pipeline_vars>>

SpecMatches == InitMatches /\ [][NextMatches]_vars

----------------------------------------------------------------------------
(* calculate_classic_standings on its own                                  *)

\* soccerway_spieltag-1.csv
soccerway_spieltag_1_csv == kw_soccerway \o <<"_">> \o lbl_spieltag_dash \o <<"1">> \o sfx_csv

\* soccerway_spieltag-2.csv
soccerway_spieltag_2_csv == kw_soccerway \o <<"_">> \o lbl_spieltag_dash \o <<"2">> \o sfx_csv

\* footystats_runde3.csv
footystats_runde3_csv == kw_footystats \o <<"_", "r", "u", "n", "d", "e", "3">> \o sfx_csv

\* soccerway_spieltag-3_xg.csv
soccerway_spieltag_3_xg_csv ==
    kw_soccerway \o <<"_">> \o lbl_spieltag_dash \o <<"3">> \o sfx_xg_csv

\* points_per_spieltag.csv, which calculate_points_per_spieltag writes
points_per_spieltag_csv == <<"p", "o", "i", "n", "t", "s", "_", "p", "e", "r", "_">> \o kw_spieltag \o sfx_csv

\* a record of a fixtures file
FixtureRow(home, away, home_goals, away_goals) ==
    [home_team |-> home, away_team |-> away,
     home_goals |-> home_goals, away_goals |-> away_goals]

Fixtures(rows) == [kind |-> "matches", columns |-> FixtureColumns, rows |-> rows]

\* what a file of the directory can hold: results, a match not played yet
\* (no score), the xG file of a matchday, the points of an earlier run
FixturesOf(name) ==
    IF name = soccerway_spieltag_3_xg_csv THEN {AachenBielefeldFile}
    ELSE IF name = points_per_spieltag_csv THEN {CorruptFile}
    ELSE {Fixtures(<<FixtureRow("Aachen", "Bielefeld", 2, 1)>>),
          Fixtures(<<FixtureRow("Bielefeld", "Cottbus", 1, 1)>>),
          Fixtures(<<FixtureRow("Cottbus", "Aachen", 0, 3),
                     FixtureRow("Bielefeld", "Aachen", 0, 0)>>),
          Fixtures(<<FixtureRow("Cottbus", "Aachen", NaN, NaN)>>),
          CorruptFile}

SoccerwayNames ==
    {soccerway_spieltag_1_csv, soccerway_spieltag_2_csv, footystats_runde3_csv,
     soccerway_spieltag_3_xg_csv, points_per_spieltag_csv}

\* the listings os.listdir can give: at most MaxFixtureFiles files, in any
\* order
RECURSIVE Listings(_)
Listings(k) ==
    IF k = 0 THEN {<<>>}
    ELSE LET shorter == Listings(k - 1)
         IN  shorter \cup
             {Append(l, [name |-> n, file |-> f]) :
                 l \in {x \in shorter : Len(x) = k - 1},
                 n \in SoccerwayNames, f \in UNION {FixturesOf(m) : m \in SoccerwayNames}}

WellFormedListing(l) ==
    /\ \A i, j \in 1..Len(l) : i # j => l[i].name # l[j].name
    /\ \A i \in 1..Len(l) : l[i].file \in FixturesOf(l[i].name)

InitStandings ==
    /\ AutomationIdle
    /\ soccerway_dir \in {l \in Listings(MaxFixtureFiles) : WellFormedListing(l)}
    /\ sort_ties \in TieOrders
    /\ standings_returned = <<>>
    /\ SeasonIdle
    /\ NameIdle
    /\ MatchIdle
    /\ OutcomeIdle
    /\ MatchesIdle
    /\ PipelineIdle

CalculateClassicStandings ==
    /\ standings_returned = <<>>
    /\ standings_returned' = <<calculate_classic_standings(soccerway_dir, sort_ties)>>
    /\ UNCHANGED <<soccerway_dir, sort_ties>>

NextStandings ==
    CalculateClassicStandings
        /\ UNCHANGED <<automation_vars, season_vars, name_vars, match_vars, outcome_vars, matches_vars,
                       pipeline_vars>>

SpecStandings == InitStandings /\ [][NextStandings]_vars

----------------------------------------------------------------------------
(* run_pipeline_for_spieltag                                               *)

\* a fixtures file in which every match has a final score
PlayedFixtures(file) ==
    /\ ~file_raises(file)
    /\ \A k \in 1..Len(file.rows) :
          notna(file.rows[k].home_goals) /\ notna(file.rows[k].away_goals)

\* the soccerway directory as step 5 finds it: fixtures files of played
\* matchdays, with a matchday number in at least one name
PipelineListings ==
    {l \in Listings(MaxFixtureFiles) :
        /\ WellFormedListing(l)
        /\ l # <<>>
        /\ \A i \in 1..Len(l) : is_spieltag_file(l[i].name) /\ PlayedFixtures(l[i].file)
        /\ \E i \in 1..Len(l) : search_spieltag_dash(l[i].name) # {}}

InitPipeline ==
    /\ AutomationIdle
    /\ pipeline_spieltag \in 1..MaxSpieltag
    /\ next_step = 1
    /\ steps_run = <<>>
    /\ step_returns = <<>>
    /\ pipeline_returned = <<>>
    /\ soccerway_dir \in PipelineListings
    /\ sort_ties = [t \in Teams |-> IndexIn(TeamNames, t)]
    /\ standings_returned = <<>>
    /\ SeasonIdle
    /\ NameIdle
    /\ MatchIdle
    /\ OutcomeIdle
    /\ MatchesIdle

\* one iteration of the loop over steps: the step is called, and the loop
\* returns or goes on
LoopIteration(k, ok) ==
    /\ next_step = k
    /\ steps_run' = Append(steps_run, steps[k])
    /\ step_returns' = Append(step_returns, ok)
    /\ next_step' = loop_after(k, ok).next_step
    /\ pipeline_returned' = loop_after(k, ok).returned
    /\ UNCHANGED <<pipeline_spieltag, soccerway_dir, sort_ties>>

\* step1_scrape_fixtures(spieltag): True when a source delivered fixtures
Step1ScrapeFixtures ==
    \E ok \in BOOLEAN : LoopIteration(1, ok) /\ UNCHANGED standings_returned

\* step2_scrape_xg(spieltag): True when a source delivered xG
Step2ScrapeXg ==
    \E ok \in BOOLEAN : LoopIteration(2, ok) /\ UNCHANGED standings_returned

\* step3_calculate_xp(spieltag): True when an xG file was processed and saved
Step3CalculateXp ==
    \E ok \in BOOLEAN : LoopIteration(3, ok) /\ UNCHANGED standings_returned

\* step5_create_standard_standings()
Step5CreateStandardStandings ==
    LET step5 == step5_create_standard_standings(standard_standings, soccerway_dir,
                                                 sort_ties)
    IN  /\ LoopIteration(4, step5.success)
        /\ standings_returned' = IF step5.outcome.raised = "TypeError"
                                 THEN standings_returned
                                 ELSE <<step5.outcome>>

NextPipeline ==
    \/ Step1ScrapeFixtures
          /\ UNCHANGED <<automation_vars, season_vars, name_vars, match_vars, outcome_vars, matches_vars>>
    \/ Step2ScrapeXg
          /\ UNCHANGED <<automation_vars, season_vars, name_vars, match_vars, outcome_vars, matches_vars>>
    \/ Step3CalculateXp
          /\ UNCHANGED <<automation_vars, season_vars, name_vars, match_vars, outcome_vars, matches_vars>>
    \/ Step5CreateStandardStandings
          /\ UNCHANGED <<automation_vars, season_vars, name_vars, match_vars, outcome_vars, matches_vars>>

SpecPipeline == InitPipeline /\ [][NextPipeline]_vars

----------------------------------------------------------------------------
(* make_request on its own                                                 *)

\* what the n-th session.get can come to
GetOutcomes(n) ==
    {Response(c, n) : c \in StatusCodes} \cup {Failure(e, n) : e \in GetExceptions}

InitRequest ==
    /\ max_retries \in 0..MaxRetries
    /\ attempt = 0
    /\ responses = <<>>
    /\ request_returned = <<>>
    /\ ConfigIdle
    /\ SelectIdle
    /\ FullIdle
    /\ RunIdle
    /\ SeasonIdle
    /\ NameIdle
    /\ MatchIdle
    /\ OutcomeIdle
    /\ MatchesIdle
    /\ StandingsIdle
    /\ PipelineIdle

\* one iteration of for attempt in range(self.max_retries): the waits, the
\* GET, and what the loop does with its outcome
Get ==
    /\ request_returned = <<>>
    /\ attempt < max_retries
    /\ \E outcome \in GetOutcomes(attempt + 1) :
          /\ responses' = Append(responses, outcome)
          /\ attempt' = after_get(attempt, outcome).attempt
          /\ request_returned' = after_get(attempt, outcome).returned
    /\ UNCHANGED max_retries

\* range(self.max_retries) is used up: the error is logged, return None
LoopEnd ==
    /\ request_returned = <<>>
    /\ ~(attempt < max_retries)
    /\ request_returned' = <<Returns(NoResponse)>>
    /\ UNCHANGED <<max_retries, attempt, responses>>

NextRequest ==
    \/ Get
          /\ UNCHANGED <<config_vars, select_vars, full_vars, run_vars, season_vars,
                         name_vars, match_vars, outcome_vars, matches_vars,
                         standings_vars, pipeline_vars>>
    \/ LoopEnd
          /\ UNCHANGED <<config_vars, select_vars, full_vars, run_vars, season_vars,
                         name_vars, match_vars, outcome_vars, matches_vars,
                         standings_vars, pipeline_vars>>

SpecRequest == InitRequest /\ [][NextRequest]_vars

\* every wait of the loop is a finite sleep and session.get has a timeout,
\* so an iteration that can be taken is taken
LiveRequest == SpecRequest /\ WF_vars(NextRequest)

----------------------------------------------------------------------------
(* get_spieltags_to_process on its own                                     *)

\* the values of the environment variable ENABLED_SOURCES: not set, one
\* source, both in the other order with a blank after the comma
Environments ==
    {<<>>, <<<<"soccerway">>>>, <<<<"footystats">>>>,
     <<<<"soccerway", ",", " ", "footystats">>>>}

\* kickoff texts around the lookback window, and one that does not parse
KickoffTexts == {Kickoff(2), Kickoff(3), Kickoff(10), OtherText}

\* the dicts SPIELTAG_MAP can be: at most MaxSpieltag items with the keys
\* 1..MaxSpieltag in any order
RECURSIVE SpieltagMaps(_)
SpieltagMaps(k) ==
    IF k = 0 THEN {<<>>}
    ELSE LET shorter == SpieltagMaps(k - 1)
         IN  shorter \cup
             {Append(map, <<n, text>>) :
                 map \in {x \in shorter : Len(x) = k - 1},
                 n \in 1..MaxSpieltag, text \in KickoffTexts}

DistinctKeys(map) == \A i, j \in 1..Len(map) : i # j => map[i][1] # map[j][1]

\* what a source directory holds: nothing, the xG and xP file of spieltag 1,
\* the xG files of all spieltags, or their xP files
SourceDirectories ==
    {{}, {DataFile(1, "_xg.csv"), DataFile(1, "_xp.csv")},
     {DataFile(n, "_xg.csv") : n \in 1..MaxSpieltag},
     {DataFile(n, "_xp.csv") : n \in 1..MaxSpieltag}}

InitSelect ==
    /\ os_environ \in Environments
    /\ SPIELTAG_MAP \in {map \in SpieltagMaps(MaxSpieltag) : DistinctKeys(map)}
    /\ now \in {9, 10}
    /\ lookback_days \in {0, 7}
    /\ source_dirs \in [{"footystats", "soccerway"} -> SourceDirectories]
    /\ spieltags_to_process = <<>>
    /\ RequestIdle
    /\ FullIdle
    /\ RunIdle
    /\ SeasonIdle
    /\ NameIdle
    /\ MatchIdle
    /\ OutcomeIdle
    /\ MatchesIdle
    /\ StandingsIdle
    /\ PipelineIdle

GetSpieltagsToProcess ==
    /\ spieltags_to_process = <<>>
    /\ spieltags_to_process' =
          <<get_spieltags_to_process(SPIELTAG_MAP, now, lookback_days, os_environ,
                                     source_dirs)>>
    /\ UNCHANGED <<now, lookback_days, source_dirs>>

NextSelect ==
    GetSpieltagsToProcess
        /\ UNCHANGED <<request_vars, config_vars, full_vars, run_vars, season_vars,
                       name_vars, match_vars, outcome_vars, matches_vars,
                       standings_vars, pipeline_vars>>

SpecSelect == InitSelect /\ [][NextSelect]_vars

----------------------------------------------------------------------------
(* run_full_pipeline                                                       *)

\* the source directories before a run: nothing in them, or the xG and xP
\* file of spieltag 1 in both
ProcessedSoFar ==
    {[source \in {"footystats", "soccerway"} |-> d] :
        d \in {{}, {DataFile(1, "_xg.csv"), DataFile(1, "_xp.csv")}}}

InitFull ==
    /\ force_current \in BOOLEAN
    /\ full_pc = "select"
    /\ pipeline_spieltags = <<>>
    /\ attempts = <<>>
    /\ success_count = 0
    /\ step4_calls = 0
    /\ full_returned = <<>>
    /\ os_environ = <<>>
    /\ SPIELTAG_MAP \in {map \in SpieltagMaps(MaxSpieltag) : DistinctKeys(map)}
    /\ now \in {9, 10}
    /\ lookback_days = 7
    /\ source_dirs \in ProcessedSoFar
    /\ spieltags_to_process = <<>>
    /\ soccerway_dir \in {l \in PipelineListings : Len(l) = 1}
    /\ sort_ties = [t \in Teams |-> IndexIn(TeamNames, t)]
    /\ standings_returned = <<>>
    /\ RequestIdle
    /\ RunIdle
    /\ SeasonIdle
    /\ NameIdle
    /\ MatchIdle
    /\ OutcomeIdle
    /\ MatchesIdle
    /\ PipelineIdle

\* the choice of the spieltags: the current one under force_current, the
\* ones of the lookback period otherwise
SelectSpieltags ==
    /\ full_pc = "select"
    /\ LET selection == select_spieltags(force_current, SPIELTAG_MAP, now,
                                         lookback_days, os_environ, source_dirs)
       IN  /\ pipeline_spieltags' = selection.spieltags
           /\ full_returned' = selection.returned
           /\ full_pc' = IF selection.returned # <<>> THEN "returned" ELSE "loop"
    /\ UNCHANGED <<force_current, attempts, success_count, step4_calls>>

\* one iteration of for spieltag in spieltags
RunPipelineForSpieltag ==
    /\ full_pc = "loop"
    /\ \E ok1, ok2, ok3 \in BOOLEAN :
          LET spieltag_now == pipeline_spieltags[Len(attempts) + 1]
              ok == run_pipeline_for_spieltag(ok1, ok2, ok3, standard_standings,
                                              soccerway_dir, sort_ties)
          IN  /\ attempts' = Append(attempts, <<spieltag_now, ok>>)
              /\ success_count' = IF ok THEN success_count + 1 ELSE success_count
    /\ full_pc' = IF Len(attempts) + 1 = Len(pipeline_spieltags) THEN "finish" ELSE "loop"
    /\ UNCHANGED <<force_current, pipeline_spieltags, step4_calls, full_returned>>

\* after the loop: step4_update_season_tables when a spieltag succeeded,
\* and the return
UpdateAndReturn ==
    /\ full_pc = "finish"
    /\ step4_calls' = IF after_spieltags(success_count, pipeline_spieltags).step4
                      THEN step4_calls + 1 ELSE step4_calls
    /\ full_returned' = <<after_spieltags(success_count, pipeline_spieltags).returned>>
    /\ full_pc' = "returned"
    /\ UNCHANGED <<force_current, pipeline_spieltags, attempts, success_count>>

NextFull ==
    \/ SelectSpieltags
          /\ UNCHANGED <<request_vars, config_vars, select_vars, run_vars, season_vars,
                         name_vars, match_vars, outcome_vars, matches_vars,
                         standings_vars, pipeline_vars>>
    \/ RunPipelineForSpieltag
          /\ UNCHANGED <<request_vars, config_vars, select_vars, run_vars, season_vars,
                         name_vars, match_vars, outcome_vars, matches_vars,
                         standings_vars, pipeline_vars>>
    \/ UpdateAndReturn
          /\ UNCHANGED <<request_vars, config_vars, select_vars, run_vars, season_vars,
                         name_vars, match_vars, outcome_vars, matches_vars,
                         standings_vars, pipeline_vars>>

SpecFull == InitFull /\ [][NextFull]_vars

----------------------------------------------------------------------------
(* run_pipeline with --spieltag                                            *)

\* args.sources: nargs='+' with the choices footystats and soccerway
SourcesArguments ==
    {<<>>} \cup {<<<<a>>>> : a \in {"footystats", "soccerway"}}
           \cup {<<<<a, b>>>> : a, b \in {"footystats", "soccerway"}}

InitRun ==
    /\ os_environ \in Environments
    /\ args_sources \in SourcesArguments
    /\ original_sources = <<>>
    /\ temporaries = <<>>
    /\ step_sources = <<>>
    /\ run_pc = "override"
    /\ SPIELTAG_MAP = <<>>
    /\ pipeline_spieltag \in 1..MaxSpieltag
    /\ next_step = 1
    /\ steps_run = <<>>
    /\ step_returns = <<>>
    /\ pipeline_returned = <<>>
    /\ soccerway_dir \in {l \in PipelineListings : Len(l) = 1}
    /\ sort_ties = [t \in Teams |-> IndexIn(TeamNames, t)]
    /\ standings_returned = <<>>
    /\ RequestIdle
    /\ SelectIdle
    /\ FullIdle
    /\ SeasonIdle
    /\ NameIdle
    /\ MatchIdle
    /\ OutcomeIdle
    /\ MatchesIdle

\* if args.sources: original_sources = ...; config.ENABLED_SOURCES[:] = ...
OverrideSources ==
    /\ run_pc = "override"
    /\ run_pc' = "run"
    /\ IF args_sources # <<>>
       THEN LET o == override_sources(os_environ, args_sources[1])
            IN  /\ original_sources' = o.original_sources
                /\ temporaries' = Append(temporaries, o.temporary)
                /\ os_environ' = o.environ
       ELSE UNCHANGED <<original_sources, temporaries, os_environ>>
    /\ UNCHANGED <<args_sources, step_sources, SPIELTAG_MAP>>

\* a step of manager.run_pipeline_for_spieltag(args.spieltag) that loops
\* over config.ENABLED_SOURCES: steps 1, 2 and 3
SourcesStep(step) ==
    /\ run_pc = "run"
    /\ step
    /\ step_sources' = Append(step_sources, ENABLED_SOURCES(os_environ))
    /\ UNCHANGED <<args_sources, original_sources, temporaries, run_pc, config_vars>>

\* step 5 reads config.SOCCERWAY_DIR only
StandingsStep ==
    /\ run_pc = "run"
    /\ Step5CreateStandardStandings
    /\ UNCHANGED <<run_vars, config_vars>>

\* the finally block, after the return of the pipeline or sys.exit(1)
RestoreSources ==
    /\ run_pc = "run"
    /\ pipeline_returned # <<>>
    /\ run_pc' = IF pipeline_returned[1] THEN "finished" ELSE "exit"
    /\ IF args_sources # <<>>
       THEN LET r == restore_sources(os_environ, original_sources)
            IN  /\ temporaries' = Append(temporaries, r.temporary)
                /\ os_environ' = r.environ
       ELSE UNCHANGED <<temporaries, os_environ>>
    /\ UNCHANGED <<args_sources, original_sources, step_sources, SPIELTAG_MAP,
                   pipeline_vars, standings_vars>>

NextRun ==
    \/ OverrideSources
          /\ UNCHANGED <<request_vars, select_vars, full_vars, season_vars, name_vars,
                         match_vars, outcome_vars, matches_vars, standings_vars,
                         pipeline_vars>>
    \/ SourcesStep(Step1ScrapeFixtures)
          /\ UNCHANGED <<request_vars, select_vars, full_vars, season_vars, name_vars,
                         match_vars, outcome_vars, matches_vars>>
    \/ SourcesStep(Step2ScrapeXg)
          /\ UNCHANGED <<request_vars, select_vars, full_vars, season_vars, name_vars,
                         match_vars, outcome_vars, matches_vars>>
    \/ SourcesStep(Step3CalculateXp)
          /\ UNCHANGED <<request_vars, select_vars, full_vars, season_vars, name_vars,
                         match_vars, outcome_vars, matches_vars>>
    \/ StandingsStep
          /\ UNCHANGED <<request_vars, select_vars, full_vars, season_vars, name_vars,
                         match_vars, outcome_vars, matches_vars>>
    \/ RestoreSources
          /\ UNCHANGED <<request_vars, select_vars, full_vars, season_vars, name_vars,
                         match_vars, outcome_vars, matches_vars>>

SpecRun == InitRun /\ [][NextRun]_vars

----------------------------------------------------------------------------
(* What the season tables are checked against.                             *)

\* a pass of process_directory for the metric has completed
Ran(metric) == runs >= 1 \/ (metric = "xP" /\ pc = "xG")

\* the last create_season_table of the metric returned a table
Built(metric) == returned[metric] # <<>>

Table(metric) == returned[metric][1]

\* the cells of a table row between the team and the total
MatchdayCells(row) == SubSeq(row, 2, Len(row) - 1)

home_column(metric) == IF metric = "xP" THEN "home_xP" ELSE "home_xG"

away_column(metric) == IF metric = "xP" THEN "away_xP" ELSE "away_xG"

\* the record names a team and holds a value for the home (away) side
HomePresent(row, metric) ==
    /\ home_column(metric) \in DOMAIN row
    /\ row.home_team # NoTeam
    /\ row[home_column(metric)] # NaN

AwayPresent(row, metric) ==
    /\ away_column(metric) \in DOMAIN row
    /\ row.away_team # NoTeam
    /\ row[away_column(metric)] # NaN

Complete(row, metric) == HomePresent(row, metric) /\ AwayPresent(row, metric)

\* the complete records of a file that name the team
RecordsOf(file, metric, team) ==
    {i \in 1..Len(file.rows) :
        /\ Complete(file.rows[i], metric)
        /\ team \in {file.rows[i].home_team, file.rows[i].away_team}}

\* the teams the complete records of a file name
TeamsOf(file, metric) == {t \in Teams : RecordsOf(file, metric, t) # {}}

\* the value of the last complete record of a file that names the team
ValueOf(file, metric, team) ==
    LET r == file.rows[Max(RecordsOf(file, metric, team))]
    IN  IF r.away_team = team THEN r[away_column(metric)] ELSE r[home_column(metric)]

\* the sources of the last aggregation of the metric: the files it selected
Sources(metric) == globbed[metric] \cap DOMAIN directory

Unparseable(metric) == {n \in Sources(metric) : spieltag_of(n) = None}

Corrupt(metric) ==
    {n \in Sources(metric) : spieltag_of(n) # None /\ directory[n].kind = "corrupt"}

\* the sources that yield at least one usable team value
Contributing(metric) ==
    {n \in Sources(metric) :
        /\ spieltag_of(n) # None
        /\ directory[n].kind = "matches"
        /\ TeamsOf(directory[n], metric) # {}}

Matchdays(metric) == {spieltag_of(n) : n \in Contributing(metric)}

\* the sum of the cells that are present
RECURSIVE PresentSum(_)
PresentSum(cells) ==
    IF cells = <<>> THEN 0
    ELSE PresentSum(Tail(cells)) + (IF Head(cells) = NaN THEN 0 ELSE Head(cells))

----------------------------------------------------------------------------
(* C1: in every season table, each team's Total_<metric> is the sum of the *)
(* team's present matchday cells; a missing cell adds nothing and does not *)
(* make the total missing.                                                 *)
C1_TotalIsSumOfPresentCells ==
    \A m \in Metrics :
        Built(m) =>
            \A i \in 1..Len(Table(m).data) :
                LET row == Table(m).data[i]
                IN  /\ row[Len(row)] # NaN
                    /\ row[Len(row)] = PresentSum(MatchdayCells(row))

\* a team with 1.2, missing, 0.8 has the total 2.0
C1_Witness_MissingMatchday ==
    /\ Built("xP")
    /\ \E i \in 1..Len(Table("xP").data) :
          Table("xP").data[i] = <<"Aachen", 12000, NaN, 8000, 20000>>

----------------------------------------------------------------------------
(* C2: the rows of every season table are ordered by total descending,     *)
(* and two teams with equal totals are in team-name ascending order.       *)
C2_RankedTiesByName ==
    \A m \in Metrics :
        Built(m) =>
            \A i, j \in 1..Len(Table(m).data) :
                i < j =>
                    LET above == Table(m).data[i]
                        below == Table(m).data[j]
                    IN  \/ above[Len(above)] > below[Len(below)]
                        \/ /\ above[Len(above)] = below[Len(below)]
                           /\ team_lt(above[1], below[1])

----------------------------------------------------------------------------
(* C3: the columns of every season table are Team, one column per          *)
(* matchday that a source supplied, in ascending order of the matchday     *)
(* number, and Total_<metric> last.                                        *)
C3_ColumnsByMatchdayNumber ==
    \A m \in Metrics :
        Built(m) =>
            LET numbers == sorted_ints(Matchdays(m))
            IN  Table(m).columns =
                    <<lbl_Team>>
                        \o [j \in 1..Len(numbers) |-> lbl_spieltag_dash \o str(numbers[j])]
                        \o <<total_label(m)>>

\* the matchdays 1, 10, 2 of the file name order are the columns 1, 2, 10
C3_Witness_OneTwoTen ==
    /\ Built("xP")
    /\ Matchdays("xP") = {1, 2, 10}
    /\ Table("xP").columns[4] = kw_spieltag \o <<"-", "1", "0">>

----------------------------------------------------------------------------
(* C4: the season table has exactly one row for each team of any           *)
(* contributing source, and for every team and matchday the cell holds the *)
(* team's extracted value for that matchday if one exists and is missing   *)
(* otherwise.                                                              *)
C4_RowsAndCells ==
    \A m \in Metrics :
        Built(m) =>
            LET data == Table(m).data
                numbers == sorted_ints(Matchdays(m))
                values(team, number) ==
                    {round3(ValueOf(directory[n], m, team)) :
                        n \in {c \in Contributing(m) :
                                 /\ spieltag_of(c) = number
                                 /\ team \in TeamsOf(directory[c], m)}}
            IN  /\ {data[i][1] : i \in 1..Len(data)}
                       = UNION {TeamsOf(directory[n], m) : n \in Contributing(m)}
                /\ \A i, j \in 1..Len(data) : i # j => data[i][1] # data[j][1]
                /\ \A i \in 1..Len(data) :
                      /\ Len(data[i]) = Len(numbers) + 2
                      /\ \A k \in 1..Len(numbers) :
                            IF values(data[i][1], numbers[k]) = {}
                            THEN data[i][k + 1] = NaN
                            ELSE data[i][k + 1] \in values(data[i][1], numbers[k])

----------------------------------------------------------------------------
(* C5, as the claim states it: a record that lacks the team or the value   *)
(* of one side is excluded for that side only; the other side, when its    *)
(* team and value are present, still contributes.                          *)
C5_ExcludedForThatSideOnly ==
    match_pc = "returned" =>
        \A i \in 1..Len(match_df.rows) :
            LET row == match_df.rows[i]
            IN  /\ HomePresent(row, match_metric) => row.home_team \in DOMAIN match_values
                /\ AwayPresent(row, match_metric) => row.away_team \in DOMAIN match_values

(* C5, amended: a record that lacks the team or the value of either side   *)
(* is excluded for both sides; the extracted value of a team is the one of *)
(* the last record that names it and has both teams and both values.       *)
C5_IncompleteRecordExcluded ==
    match_pc = "returned" =>
        /\ DOMAIN match_values = TeamsOf(match_df, match_metric)
        /\ \A t \in TeamsOf(match_df, match_metric) :
              match_values[t] = ValueOf(match_df, match_metric, t)

\* a record with the home side present and the away value missing, and the
\* home team without a value
C5_Witness_HomeSideDropped ==
    /\ match_pc = "returned"
    /\ \E i \in 1..Len(match_df.rows) :
          /\ HomePresent(match_df.rows[i], match_metric)
          /\ ~AwayPresent(match_df.rows[i], match_metric)
          /\ match_df.rows[i].home_team \notin DOMAIN match_values

----------------------------------------------------------------------------
(* The forms of a matchday number in a source identifier.                  *)

SameLetters(part, keyword) ==
    /\ Len(part) = Len(keyword)
    /\ \A i \in 1..Len(part) : lower_char(part[i]) = keyword[i]

\* where the maximal runs of digits of an identifier start
RunStarts(name) ==
    {i \in 1..Len(name) :
        /\ name[i] \in DigitChars
        /\ i = 1 \/ name[i - 1] \notin DigitChars}

\* where the run of digits that starts at i ends
RunEnd(name, i) ==
    CHOOSE j \in i..Len(name) :
        /\ \A k \in i..j : name[k] \in DigitChars
        /\ j = Len(name) \/ name[j + 1] \notin DigitChars

\* the maximal runs of digits of an identifier, as <<first, last>>
DigitRuns(name) == {<<i, RunEnd(name, i)>> : i \in RunStarts(name)}

NumberOf(name, run) == int(SubSeq(name, run[1], run[2]))

\* <keyword><separator>N in any letter case: <<where it starts, N>>
KeywordNumber(name, keyword) ==
    {<<run[1] - 1 - Len(keyword), NumberOf(name, run)>> :
        run \in {r \in DigitRuns(name) :
                    /\ r[1] - 1 - Len(keyword) >= 1
                    /\ name[r[1] - 1] \in {"-", "_"}
                    /\ SameLetters(SubSeq(name, r[1] - 1 - Len(keyword), r[1] - 2), keyword)}}

\* N<separator><keyword> in any letter case: <<where it starts, N>>
NumberKeyword(name, keyword) ==
    {<<run[1], NumberOf(name, run)>> :
        run \in {r \in DigitRuns(name) :
                    /\ r[2] + 1 + Len(keyword) <= Len(name)
                    /\ name[r[2] + 1] \in {"-", "_"}
                    /\ SameLetters(SubSeq(name, r[2] + 2, r[2] + 1 + Len(keyword)), keyword)}}

Numbers(found) == {f[2] : f \in found}

\* the N of the leftmost occurrence
Leftmost(found) == (CHOOSE f \in found : \A g \in found : f[1] <= g[1])[2]

(* C6, as the claim states it: an identifier that embeds N as matchday-N,  *)
(* N-matchday, round-N or spieltag-N, in any letter case, yields N; an     *)
(* identifier with none of these forms yields no matchday number.          *)
C6_AcceptedForms ==
    name_pc = "returned" =>
        LET accepted == Numbers(KeywordNumber(filename, kw_matchday))
                            \cup Numbers(NumberKeyword(filename, kw_matchday))
                            \cup Numbers(KeywordNumber(filename, kw_round))
                            \cup Numbers(KeywordNumber(filename, kw_spieltag))
        IN  IF accepted = {} THEN spieltag = None ELSE spieltag \in accepted

(* C6, amended: the accepted forms are spieltag-N, N-spieltag, round-N and *)
(* matchday-N (separator - or _, any letter case); extraction yields the N *)
(* of the first of these forms, in this order, that the identifier embeds, *)
(* at its leftmost occurrence, and no matchday number when it embeds none; *)
(* N-matchday is not accepted.                                             *)
C6_FormsOfTheCode ==
    name_pc = "returned" =>
        LET spieltag_n == KeywordNumber(filename, kw_spieltag)
            n_spieltag == NumberKeyword(filename, kw_spieltag)
            round_n    == KeywordNumber(filename, kw_round)
            matchday_n == KeywordNumber(filename, kw_matchday)
        IN  spieltag = IF spieltag_n # {} THEN Leftmost(spieltag_n)
                       ELSE IF n_spieltag # {} THEN Leftmost(n_spieltag)
                       ELSE IF round_n # {} THEN Leftmost(round_n)
                       ELSE IF matchday_n # {} THEN Leftmost(matchday_n)
                       ELSE None

\* an identifier with MATCHDAY-N in capitals as its only form yields N
C6_Witness_CapitalMatchday ==
    /\ name_pc = "returned"
    /\ KeywordNumber(filename, kw_spieltag) = {}
    /\ NumberKeyword(filename, kw_spieltag) = {}
    /\ KeywordNumber(filename, kw_round) = {}
    /\ KeywordNumber(filename, kw_matchday) # {}
    /\ spieltag \in Numbers(KeywordNumber(filename, kw_matchday))

----------------------------------------------------------------------------
(* C7: a source whose matchday number cannot be determined is skipped with *)
(* a logged warning, and the table is the same as if the source had not    *)
(* been in the directory.                                                  *)
C7_SkippedWithWarning ==
    \A m \in Metrics :
        Ran(m) =>
            \A n \in Unparseable(m) :
                /\ <<"warning", n>> \in log[m]
                /\ (m = "xP" /\ runs = 0) =>
                      LET others == [o \in DOMAIN directory \ {n} |-> directory[o]]
                      IN  returned[m] = create_season_table(others, m, tie_order).value

----------------------------------------------------------------------------
----------------------------------------------------------------------------
----------------------------------------------------------------------------
----------------------------------------------------------------------------
(* What the match outcome model is checked against.                        *)

\* the argument is missing: NaN or None
Missing(x) == x.kind = "None" \/ (x.kind = "float" /\ x.value = NaN)

\* the argument is a number
IsNumber(x) == x.kind = "float" /\ x.value # NaN

\* the argument is one value, not a list of values
Scalar(x) == x.kind # "list"

AllNaN2 == Returns(<<NaN, NaN>>)

AllNaN3 == Returns(<<NaN, NaN, NaN>>)

\* both functions of the model have been called
BothReturned == xp_returned # <<>> /\ prob_returned # <<>>

\* the scorelines of the grid
Grid == (0 .. self_max_goals) \X (0 .. self_max_goals)

\* the mass of the scorelines h : a, h : a + 1, ... of a set, in 1/PmfScale^2
RECURSIVE RowMass(_, _, _)
RowMass(S, h, a) ==
    IF a > self_max_goals THEN 0
    ELSE (IF <<h, a>> \in S
          THEN poisson_pmf(h, arg_xg_home) * poisson_pmf(a, arg_xg_away)
          ELSE 0) + RowMass(S, h, a + 1)

RECURSIVE MassFrom(_, _)
MassFrom(S, h) ==
    IF h > self_max_goals THEN 0 ELSE RowMass(S, h, 0) + MassFrom(S, h + 1)

\* the mass of a set of scorelines of the grid
Mass(S) == MassFrom(S, 0)

HomeWins == {s \in Grid : s[1] > s[2]}

Draws == {s \in Grid : s[1] = s[2]}

AwayWins == {s \in Grid : s[1] < s[2]}

NoXP == [xp_home |-> 0, xp_away |-> 0, p_draw |-> 0]

NoMass == [p_home_win |-> 0, p_draw |-> 0, p_away_win |-> 0]

\* the unrounded masses calculate_match_probabilities accumulates
Accumulated == prob_loop(self_max_goals, arg_xg_home, arg_xg_away, 0)

(* C11: when either xG argument is missing (NaN or None) and the other is  *)
(* any single value, compute_xp returns NaN for both expected points and   *)
(* calculate_match_probabilities returns NaN for all three probabilities,  *)
(* and neither raises.                                                     *)
C11_MissingInputGivesNaN ==
    (/\ Missing(arg_xg_home) \/ Missing(arg_xg_away)
     /\ Scalar(arg_xg_home) /\ Scalar(arg_xg_away))
    => /\ xp_returned # <<>> => xp_returned[1] = AllNaN2
       /\ prob_returned # <<>> => prob_returned[1] = AllNaN3

C11_Witness_NaNBesideNumber ==
    /\ arg_xg_home = Float(NaN)
    /\ arg_xg_away = Float(25000)
    /\ BothReturned
    /\ xp_returned[1] = AllNaN2
    /\ prob_returned[1] = AllNaN3

(* C12: for every number x >= 0, the model applied to (x, x) returns equal *)
(* expected points for the two sides and equal home-win and away-win       *)
(* probabilities.                                                          *)
C12_EqualInputsEqualSides ==
    (IsNumber(arg_xg_home) /\ arg_xg_away = arg_xg_home)
    => /\ xp_returned # <<>> =>
            /\ xp_returned[1].raised = "none"
            /\ xp_returned[1].value[1] = xp_returned[1].value[2]
       /\ prob_returned # <<>> =>
            /\ prob_returned[1].raised = "none"
            /\ prob_returned[1].value[1] = prob_returned[1].value[3]

C12_Witness_EqualInputs ==
    /\ arg_xg_home = Float(15000)
    /\ arg_xg_away = Float(15000)
    /\ BothReturned
    /\ xp_returned[1].value[1] > 0
    /\ xp_returned[1].value[1] = xp_returned[1].value[2]
    /\ prob_returned[1].value[1] > 0

\* the three probabilities returned add up to 1 within 1e-3
SumsToOne ==
    LET p == prob_returned[1].value
        total == p[1] + p[2] + p[3]
    IN  /\ prob_returned[1].raised = "none"
        /\ total >= 10000 - 10
        /\ total <= 10000 + 10

(* C13, as the claim states it: for all finite non-negative xG arguments   *)
(* and max_goals >= 10, the three probabilities returned by                *)
(* calculate_match_probabilities add up to 1 within 1e-3.                  *)
C13_ProbabilitiesSumToOne ==
    (/\ prob_returned # <<>>
     /\ IsNumber(arg_xg_home) /\ IsNumber(arg_xg_away)
     /\ self_max_goals >= 10)
    => SumsToOne

(* C13, amended: for xG arguments between 0 and 2.5 and max_goals >= 10,   *)
(* the three probabilities returned by calculate_match_probabilities add   *)
(* up to 1 within 1e-3; the grid is cut at max_goals without               *)
(* renormalisation, so for larger xG the sum falls short by the mass of    *)
(* the scorelines beyond the cut.                                          *)
C13_SumsToOneForRealisticXg ==
    (/\ prob_returned # <<>>
     /\ IsNumber(arg_xg_home) /\ IsNumber(arg_xg_away)
     /\ arg_xg_home.value <= 25000 /\ arg_xg_away.value <= 25000
     /\ self_max_goals >= 10)
    => SumsToOne

C13_Witness_RealisticXg ==
    /\ prob_returned # <<>>
    /\ arg_xg_home = Float(25000)
    /\ arg_xg_away = Float(15000)
    /\ self_max_goals = 10
    /\ SumsToOne
    /\ prob_returned[1].value[2] > 0

(* C14: every scoreline of the grid [0..max_goals] x [0..max_goals] goes   *)
(* to exactly one bucket, the home wins for h > a, the away wins for       *)
(* h < a, the draws for h = a, in both functions; and compute_xp returns   *)
(* round(3 * p_home_win + p_draw) and round(3 * p_away_win + p_draw) of    *)
(* the unrounded masses that calculate_match_probabilities accumulates,    *)
(* which are the masses of the three sets of scorelines.                   *)
C14_BucketsAndExpectedPoints ==
    (xp_returned # <<>> /\ IsNumber(arg_xg_home) /\ IsNumber(arg_xg_away))
    => /\ \A s \in Grid :
            /\ prob_add(NoMass, s[1], s[2], 1) =
                   [p_home_win |-> IF s[1] > s[2] THEN 1 ELSE 0,
                    p_draw     |-> IF s[1] = s[2] THEN 1 ELSE 0,
                    p_away_win |-> IF s[1] < s[2] THEN 1 ELSE 0]
            /\ xp_add(NoXP, s[1], s[2], 1) =
                   [xp_home |-> IF s[1] > s[2] THEN 3 ELSE 0,
                    p_draw  |-> IF s[1] = s[2] THEN 1 ELSE 0,
                    xp_away |-> IF s[1] < s[2] THEN 3 ELSE 0]
       /\ Accumulated = [p_home_win |-> Mass(HomeWins), p_draw |-> Mass(Draws),
                         p_away_win |-> Mass(AwayWins)]
       /\ xp_returned[1] =
              Returns(<<round_mass(3 * Accumulated.p_home_win + Accumulated.p_draw),
                        round_mass(3 * Accumulated.p_away_win + Accumulated.p_draw)>>)

C14_Witness_UnequalSides ==
    /\ xp_returned # <<>>
    /\ arg_xg_home = Float(15000)
    /\ arg_xg_away = Float(10000)
    /\ xp_returned[1].raised = "none"
    /\ xp_returned[1].value[1] > xp_returned[1].value[2]
    /\ xp_returned[1].value[2] > 0

----------------------------------------------------------------------------
(* What process_matches_file is checked against.                           *)

\* the xG columns of the file: for each side the last column with one of
\* the names of that side, when both sides have one
HasXgPair ==
    /\ matches_file.kind = "matches"
    /\ \E c \in Range(matches_file.columns) : c \in home_xg_candidates
    /\ \E c \in Range(matches_file.columns) : c \in away_xg_candidates

XgColumnOf(candidates) ==
    LET columns == matches_file.columns
    IN  columns[Max({i \in 1..Len(columns) : columns[i] \in candidates})]

\* the model's outputs for a record of the file
OutputsFor(row) ==
    LET home_xg == Float(row[XgColumnOf(home_xg_candidates)])
        away_xg == Float(row[XgColumnOf(away_xg_candidates)])
    IN  compute_xp(self_max_goals, home_xg, away_xg).value
        \o calculate_match_probabilities(self_max_goals, home_xg, away_xg).value

\* the returned table has the file's rows in the file's order, the cells of
\* the given file columns as they were, and in the five columns the outputs
\* for the record's own xG
Augmented(kept) ==
    LET df == matches_returned[1]
    IN  /\ df.kind = "matches"
        /\ Len(df.rows) = Len(matches_file.rows)
        /\ Range(df.columns) = Range(matches_file.columns) \cup Range(xp_columns)
        /\ \A i \in 1..Len(df.rows) :
              /\ DOMAIN df.rows[i] = Range(df.columns)
              /\ \A c \in kept : df.rows[i][c] = matches_file.rows[i][c]
              /\ \A k \in 1..Len(xp_columns) :
                    df.rows[i][xp_columns[k]] = OutputsFor(matches_file.rows[i])[k]

----------------------------------------------------------------------------
(* What the classic standings are checked against.                         *)

\* calculate_classic_standings has come to the points per matchday file
PointsComputed ==
    /\ standings_returned # <<>>
    /\ standings_returned[1].raised # "ValueError"

\* calculate_classic_standings has written the standings
StandingsWritten ==
    /\ standings_returned # <<>>
    /\ standings_returned[1].raised = "none"

\* the matchday files of the directory, in the order of the listing
SpieltagFiles == listed_spieltag_files(soccerway_dir)

Readable(file) == ~file_raises(file)

\* the 3-1-0 points of a team for one match record, by the final score
PointsForMatch(team, row) ==
    LET played == notna(row.home_goals) /\ notna(row.away_goals)
        home == IF played /\ row.home_goals > row.away_goals THEN 3
                ELSE IF played /\ row.home_goals = row.away_goals THEN 1 ELSE 0
        away == IF played /\ row.home_goals < row.away_goals THEN 3
                ELSE IF played /\ row.home_goals = row.away_goals THEN 1 ELSE 0
    IN  (IF row.home_team = team THEN home ELSE 0)
        + (IF row.away_team = team THEN away ELSE 0)

RECURSIVE PointsInRows(_, _)
PointsInRows(team, rows) ==
    IF rows = <<>> THEN 0
    ELSE PointsForMatch(team, Head(rows)) + PointsInRows(team, Tail(rows))

PlaysIn(team, file) ==
    \E k \in 1..Len(file.rows) :
        team \in {file.rows[k].home_team, file.rows[k].away_team}

\* the cell of df_points for a team and the i-th matchday file is the sum of
\* the team's 3-1-0 points over its matches in that file
CellIsPointsOfFile(team, i) ==
    \E r \in 1..Len(standings_returned[1].df_points) :
        LET row == standings_returned[1].df_points[r]
        IN  /\ row.Team = team
            /\ row.points[i] = PointsInRows(team, SpieltagFiles[i].file.rows)

(* C17: every match record gives the home team 3 and the away team 0 when  *)
(* home_goals > away_goals, both 1 when the goals are equal, the away team *)
(* 3 and the home team 0 when home_goals < away_goals, and nothing else;   *)
(* a team's points for a matchday are the sum over its matches in that     *)
(* matchday's file.                                                        *)
C17_PointsByFinalScore ==
    PointsComputed
    => \A i \in 1..Len(SpieltagFiles) : \A team \in Teams :
          (Readable(SpieltagFiles[i].file) /\ PlaysIn(team, SpieltagFiles[i].file))
          => CellIsPointsOfFile(team, i)

----------------------------------------------------------------------------
(* What the pipeline is checked against.                                   *)

\* the steps of the pipeline, in the order the claim gives
StepOrder == <<"Scrape Fixtures", "Scrape xG", "Calculate xP", "Create Standard Standings">>

AllReturnedTrue == \A i \in 1..Len(step_returns) : step_returns[i]

(* C19: run_pipeline_for_spieltag calls its steps in the order scrape      *)
(* fixtures, scrape xG, calculate xP, create classic standings; after the  *)
(* first step that returns False it calls no later step and returns False; *)
(* and it returns True if and only if all four steps returned True.        *)
C19_StepsInOrderStopAtFirstFailure ==
    /\ Len(step_returns) = Len(steps_run)
    /\ Len(steps_run) <= Len(StepOrder)
    /\ steps_run = SubSeq(StepOrder, 1, Len(steps_run))
    /\ \A i \in 1..Len(step_returns) - 1 : step_returns[i]
    /\ ~AllReturnedTrue => pipeline_returned = <<FALSE>>
    /\ pipeline_returned # <<>> =>
          pipeline_returned[1] = (Len(step_returns) = Len(StepOrder) /\ AllReturnedTrue)
    /\ pipeline_returned = <<>> => next_step = Len(steps_run) + 1

C19_Witness_StoppedAtSecondStep ==
    /\ steps_run = <<"Scrape Fixtures", "Scrape xG">>
    /\ step_returns = <<TRUE, FALSE>>
    /\ pipeline_returned = <<FALSE>>
    /\ next_step = 0

(* C20: when the fixtures, xG and xP steps have succeeded and the          *)
(* soccerway directory holds well-formed fixtures files, step 5 computes   *)
(* the classic standings and returns True, and run_pipeline_for_spieltag   *)
(* returns True.                                                           *)
C20_StandingsStepSucceeds ==
    (Len(steps_run) = Len(StepOrder) /\ soccerway_dir \in PipelineListings)
    => /\ step_returns[Len(StepOrder)]
       /\ standings_returned # <<>>
       /\ pipeline_returned = <<TRUE>>

----------------------------------------------------------------------------
(* What make_request is checked against.                                   *)

\* the n-th GET ended the loop: status 200 or status 404
Final(n) ==
    /\ responses[n].kind = "Response"
    /\ responses[n].status_code \in {200, 404}

\* make_request has returned what the GETs it made call for
Settled ==
    /\ request_returned # <<>>
    /\ request_returned[1].raised = "none"
    /\ Len(responses) <= max_retries
    /\ \A n \in 1..Len(responses) : responses[n].request = n
    /\ \A n \in 1..Len(responses) - 1 : ~Final(n)
    /\ LET n == Len(responses)
       IN  IF n > 0 /\ Final(n)
           THEN request_returned[1].value =
                    IF responses[n].status_code = 200 THEN responses[n] ELSE NoResponse
           ELSE n = max_retries /\ request_returned[1].value = NoResponse

(* C23: make_request always terminates after at most max_retries GET       *)
(* attempts: it returns the response of the first attempt that gets status *)
(* 200, returns None at once on status 404, tries again on every other     *)
(* status, timeout, connection error or exception, returns None once       *)
(* max_retries attempts are used up, and never raises.                     *)
C23_TerminatesWithinMaxRetries == (request_returned = <<>>) ~> Settled

C23_Witness_NotFoundOnSecondGet ==
    /\ max_retries = 3
    /\ Len(responses) = 2
    /\ responses[1].kind = "Timeout"
    /\ responses[2].kind = "Response" /\ responses[2].status_code = 404
    /\ request_returned = <<Returns(NoResponse)>>

----------------------------------------------------------------------------
(* What the selection of spieltags is checked against.                     *)

\* the sources config.ENABLED_SOURCES gives
EnabledSources == Range(ENABLED_SOURCES(os_environ))

\* every enabled source directory contains an xP file for spieltag n
FullyProcessed(n) ==
    \A source \in EnabledSources :
        \E f \in source_dirs[source] : f.spieltag = n /\ f.suffix = "_xp.csv"

\* the spieltags with a kickoff in [now - lookback_days, now]
InLookback ==
    {SPIELTAG_MAP[i][1] : i \in {j \in 1..Len(SPIELTAG_MAP) :
        /\ SPIELTAG_MAP[j][2].in_format
        /\ now - lookback_days <= SPIELTAG_MAP[j][2].day
        /\ SPIELTAG_MAP[j][2].day <= now}}

(* C28: get_spieltags_to_process returns, in ascending order and without   *)
(* duplicates, exactly the spieltags whose kickoff lies in                  *)
(* [now - lookback_days, now] and which are not fully processed, where a   *)
(* spieltag is fully processed if and only if every enabled source         *)
(* directory contains an xP file for it; an item whose date does not parse *)
(* is ignored.                                                             *)
C28_SelectsUnprocessedInLookback ==
    spieltags_to_process # <<>>
    => LET result == spieltags_to_process[1]
       IN  /\ \A i, j \in 1..Len(result) : i < j => result[i] < result[j]
           /\ Range(result) = {n \in InLookback : ~FullyProcessed(n)}

C28_Witness_DescendingMapOneSourceBehind ==
    /\ Len(SPIELTAG_MAP) = 2
    /\ SPIELTAG_MAP[1][1] = 2 /\ SPIELTAG_MAP[2][1] = 1
    /\ EnabledSources = {"footystats", "soccerway"}
    /\ source_dirs["footystats"] = {DataFile(n, "_xp.csv") : n \in 1..MaxSpieltag}
    /\ source_dirs["soccerway"] = {DataFile(n, "_xg.csv") : n \in 1..MaxSpieltag}
    /\ lookback_days = 7
    /\ spieltags_to_process = <<<<1, 2>>>>

----------------------------------------------------------------------------
(* What run_full_pipeline is checked against.                              *)

\* the spieltags run_full_pipeline has to process
Selected ==
    IF force_current
    THEN LET current_spieltag == get_current_spieltag(SPIELTAG_MAP, now)
         IN  IF current_spieltag = None THEN <<>> ELSE <<current_spieltag>>
    ELSE get_spieltags_to_process(SPIELTAG_MAP, now, lookback_days, os_environ,
                                  source_dirs)

Succeeded == {i \in 1..Len(attempts) : attempts[i][2]}

(* C21: run_full_pipeline attempts every selected spieltag in ascending    *)
(* order and goes on after a failed one; it runs the season-table update   *)
(* (step 4) only after all spieltags were attempted and exactly when at    *)
(* least one spieltag pipeline succeeded; it returns True if and only if   *)
(* every selected spieltag succeeded: True without running anything when   *)
(* none needs processing, False when force_current is set and there is no  *)
(* current spieltag.                                                       *)
C21_AttemptsAllThenUpdates ==
    /\ Len(attempts) <= Len(Selected)
    /\ \A i \in 1..Len(attempts) : attempts[i][1] = Selected[i]
    /\ \A i, j \in 1..Len(attempts) : i < j => attempts[i][1] < attempts[j][1]
    /\ success_count = Cardinality(Succeeded)
    /\ step4_calls > 0 => Len(attempts) = Len(Selected)
    /\ full_returned # <<>> =>
          /\ Len(attempts) = Len(Selected)
          /\ step4_calls = IF Succeeded # {} THEN 1 ELSE 0
          /\ IF force_current /\ Selected = <<>> THEN full_returned = <<FALSE>>
             ELSE full_returned[1] = (Cardinality(Succeeded) = Len(Selected))

C21_Witness_WentOnAfterFailure ==
    /\ ~force_current
    /\ Len(attempts) = 2
    /\ attempts[1] = <<1, FALSE>>
    /\ attempts[2][1] = 2
    /\ step4_calls = 0
    /\ full_returned = <<FALSE>>

----------------------------------------------------------------------------
(* What run_pipeline is checked against.                                   *)

RunOver == run_pc \in {"finished", "exit"}

(* C22: when the run command is given --sources S, every pipeline step     *)
(* executed during that run iterates over exactly the sources in S, and    *)
(* after the run has finished (with success, with failure, or by exit) the *)
(* enabled sources are back to their original value.                       *)
C22_StepsUseGivenSources ==
    args_sources # <<>>
    => /\ \A i \in 1..Len(step_sources) :
             Range(step_sources[i]) = Range(args_sources[1])
       /\ RunOver => ENABLED_SOURCES(os_environ) = original_sources

----------------------------------------------------------------------------
(* What the points per matchday are checked against.                       *)

\* every matchday file can be read and holds final scores only
AllPlayed == \A i \in 1..Len(SpieltagFiles) : PlayedFixtures(SpieltagFiles[i].file)

\* every matchday file can be read, and every team of a later file plays in
\* the first one
AllInFirstFile ==
    /\ \A i \in 1..Len(SpieltagFiles) : Readable(SpieltagFiles[i].file)
    /\ \A i \in 1..Len(SpieltagFiles) : \A team \in Teams :
          PlaysIn(team, SpieltagFiles[i].file) => PlaysIn(team, SpieltagFiles[1].file)

\* the rows of the points table
PointsRows == standings_returned[1].df_points

\* a matchday file raises in the loop
SomeFileRaises == \E i \in 1..Len(SpieltagFiles) : ~Readable(SpieltagFiles[i].file)

(* C24: in the points table of calculate_points_per_spieltag, for every    *)
(* team and every processed file index i, column points_spieltag{i} holds  *)
(* the points the team earned in the i-th processed file and is empty when *)
(* the team has no match in that file, also for a team that first appears  *)
(* in a later file and for a team absent from some file.                   *)
C24_ColumnIsFileIndex ==
    (PointsComputed /\ AllPlayed)
    => \A r \in 1..Len(PointsRows) : \A i \in 1..Len(SpieltagFiles) :
          PointsRows[r].points[i] =
              IF PlaysIn(PointsRows[r].Team, SpieltagFiles[i].file)
              THEN PointsInRows(PointsRows[r].Team, SpieltagFiles[i].file.rows)
              ELSE NaN

(* C25: when reading or processing one matchday file raises inside         *)
(* calculate_points_per_spieltag, the file is skipped and the function     *)
(* still returns a points table built from the remaining files, without an *)
(* exception reaching its caller, whichever position the failing file has  *)
(* in the file list.                                                       *)
C25_FailingFileSkipped ==
    (standings_returned # <<>> /\ SomeFileRaises)
    => /\ standings_returned[1].raised # "ValueError"
       /\ \A i \in 1..Len(SpieltagFiles) : \A team \in Teams :
             (Readable(SpieltagFiles[i].file) /\ PlaysIn(team, SpieltagFiles[i].file))
             => \E r \in 1..Len(PointsRows) : PointsRows[r].Team = team

\* the matchday numbers in the names of the folder's csv files, the xG and
\* xP files left out
NumbersInNames ==
    UNION {{int(g) : g \in search_spieltag_dash(soccerway_dir[i].name)} :
              i \in {j \in 1..Len(soccerway_dir) : is_standings_csv(soccerway_dir[j].name)}}

(* C26: calculate_classic_standings names its output after the latest      *)
(* matchday: the largest N over the file names containing spieltag-N, and, *)
(* when no file name of the folder contains such a token, the number of    *)
(* points columns; in both cases it writes the file                        *)
(* classic_standings_spieltag-<latest>.csv.                                *)
C26_OutputNamedAfterLatest ==
    PointsComputed
    => /\ standings_returned[1].raised = "none"
       /\ standings_returned[1].latest_spieltag =
             IF NumbersInNames # {} THEN Max(NumbersInNames)
             ELSE Len(SpieltagFiles)

\* a record without a final score
Unplayed(row) == ~(notna(row.home_goals) /\ notna(row.away_goals))

(* C27: in calculate_points_per_spieltag a match record whose home_goals   *)
(* or away_goals is missing (a match not played yet) gives no points to    *)
(* either team; points are given only for records with both goal values.   *)
C27_NoPointsWithoutScore ==
    (PointsComputed /\ AllInFirstFile)
    => \A r \in 1..Len(PointsRows) : \A i \in 1..Len(SpieltagFiles) :
          PlaysIn(PointsRows[r].Team, SpieltagFiles[i].file)
          => \/ PointsRows[r].points[i] =
                   PointsInRows(PointsRows[r].Team, SpieltagFiles[i].file.rows)
             \/ /\ PointsRows[r].points[i] = NaN
                /\ \A k \in 1..Len(SpieltagFiles[i].file.rows) :
                      LET row == SpieltagFiles[i].file.rows[k]
                      IN  PointsRows[r].Team \in {row.home_team, row.away_team}
                          => Unplayed(row)
====
